---- MODULE Spec2Model ----
(***************************************************************************)
(* Model of the webhook dispatch subsystem, the webhook secret codec, the  *)
(* webhook repositories and the permission-gated use cases.                *)
(*                                                                         *)
(* Conventions.  Option<T> is a sequence of length 0 (None) or 1 (Some).   *)
(* A String is a sequence of one-character strings.  A byte is a number in *)
(* 0..7 (a three-bit byte); the bytes 0..3 are the UTF-8 encodings of the  *)
(* characters "0", "1", "a", "*" and 4..7 are not valid UTF-8.  The        *)
(* transport encoding of bytes writes each byte as three binary digits.    *)
(***************************************************************************)
EXTENDS Integers, Sequences, FiniteSets, TLC

VARIABLES
    config,          \* AccountLifeCycle: the process-wide encryption key
    webhook_table,   \* the stored webhook records (persistence)
    pc,              \* position of the running use case / dispatch
    args,            \* the arguments of the running use case
    fetched_kind,    \* what list_by_trigger answered (observer)
    trigger,         \* WebHookTrigger handed to dispatch_webhooks
    payload,         \* payload_body handed to dispatch_webhooks
    account_table,   \* accounts persisted by the registration repository
    hooks,           \* Vec<WebHook> obtained from list_by_trigger
    bodies,          \* per hook: the state of its request future
    cursor,          \* index of the hook_res the for loop is awaiting
    responses,       \* Vec<HookResponse>
    sent,            \* requests that reached the network (observer)
    webhook_response, \* WebHookPropagationResponse of dispatch_webhooks
    result,          \* what the use case returned
    accounts,        \* the account table of the account repositories
    tenants,         \* the tenant table of the tenant repositories
    uc,              \* the profile-gated use case being run and its arguments
    uc_pc,           \* its position
    uc_locals,       \* its local variables
    uc_invoked,      \* the repository operations it has invoked (observer)
    uc_result,       \* what it returned
    repo_op,         \* the webhook repository operation last performed
    repo_returned,   \* the WebHook values that operation returned
    sec_input,       \* the WebHookSecret handed to encrypt_me
    sec_key,         \* the key it was encrypted with
    sec_stored,      \* the secret as stored (token at rest)
    sec_origin,      \* how the stored token came about
    sec_decrypt_key, \* the key handed to decrypt_me
    sec_decrypted,   \* what decrypt_me returned
    role_table,      \* the guest_role table
    role_calls,      \* per caller: its get_or_create call and where it stands
    api_args,        \* further arguments and locals of the use case being run
    api_http,        \* the HTTP status the endpoint answered with
    error_codes,     \* the error codes stored by the registration repository
    q_main,          \* the message queue (a Redis list, head first)
    q_processing,    \* the processing queue
    q_error,         \* the error queue
    q_pc,            \* where consume_messages stands
    q_retries,       \* its local retries
    q_processed,     \* its local processed_messages
    q_value,         \* the value its last pop returned
    q_result,        \* what it returned
    q_sent,          \* the messages handed to the message sender, in order (observer)
    q_run,           \* what happened to each message in the present run (observer)
    gu_call,         \* the guest_user call and its arguments
    gu_pc,           \* where it stands
    gu_locals,       \* its local variables
    gu_invoked,      \* the repository operations it has invoked, in order (observer)
    gu_result,       \* what it returned
    lic_rows,        \* rows of the licensed_resources view for the caller's email
    lic_call,        \* the list_licensed_resources call last made
    lic_result       \* what that call returned

dispatchVars == <<pc, args, fetched_kind, trigger, payload, account_table, hooks, bodies, cursor,
                  responses, sent, webhook_response, result>>

authVars == <<accounts, tenants, uc, uc_pc, uc_locals, uc_invoked, uc_result>>

repoVars == <<repo_op, repo_returned>>

licVars == <<lic_rows, lic_call, lic_result>>

secretVars == <<sec_input, sec_key, sec_stored, sec_origin, sec_decrypt_key, sec_decrypted>>

roleVars == <<role_table, role_calls>>

apiVars == <<api_args, api_http, error_codes>>

queueVars == <<q_main, q_processing, q_error, q_pc, q_retries, q_processed, q_value,
               q_result, q_sent, q_run>>

guestVars == <<gu_call, gu_pc, gu_locals, gu_invoked, gu_result>>

tailVars == <<queueVars, guestVars>>

extVars == <<licVars, secretVars, roleVars, apiVars, tailVars>>

coreVars == <<config, webhook_table, dispatchVars, authVars, repoVars>>

vars == <<coreVars, extVars>>

None == <<>>
Some(x) == <<x>>

(***************************************************************************)
(* Secret codec                                                            *)
(***************************************************************************)

NonceLen == 12
AES_256_KEY_LEN == 32

Byte == 0..7
Char == {"0", "1", "a", "*"}

RECURSIVE SumSeq(_)
SumSeq(s) == IF s = <<>> THEN 0 ELSE Head(s) + SumSeq(Tail(s))

CharToByte(c) ==
    CASE c = "0" -> 0 [] c = "1" -> 1 [] c = "a" -> 2 [] c = "*" -> 3

ByteToChar(b) ==
    CASE b = 0 -> "0" [] b = 1 -> "1" [] b = 2 -> "a" [] b = 3 -> "*"

\* str::as_bytes
as_bytes(s) == [i \in 1..Len(s) |-> CharToByte(s[i])]

\* String::from_utf8
from_utf8(bs) ==
    IF \A i \in 1..Len(bs) : bs[i] < 4
    THEN [ok |-> TRUE, val |-> [i \in 1..Len(bs) |-> ByteToChar(bs[i])]]
    ELSE [ok |-> FALSE, val |-> <<>>]

Digit(b, k) ==
    LET bit == CASE k = 0 -> b \div 4 [] k = 1 -> (b \div 2) % 2 [] k = 2 -> b % 2
    IN  IF bit = 1 THEN "1" ELSE "0"

DigitValue(c) == IF c = "1" THEN 1 ELSE 0

\* general_purpose::STANDARD.encode
b64_encode(bs) ==
    [i \in 1..(3 * Len(bs)) |-> Digit(bs[((i - 1) \div 3) + 1], (i - 1) % 3)]

\* general_purpose::STANDARD.decode
b64_decode(s) ==
    IF Len(s) % 3 # 0 \/ \E i \in 1..Len(s) : s[i] \notin {"0", "1"}
    THEN [ok |-> FALSE, val |-> <<>>]
    ELSE [ok |-> TRUE,
          val |-> [j \in 1..(Len(s) \div 3) |->
                     4 * DigitValue(s[3 * j - 2]) + 2 * DigitValue(s[3 * j - 1])
                       + DigitValue(s[3 * j])]]

\* UnboundKey::new(&AES_256_GCM, key): the key must be 32 bytes long
UnboundKey_new(key) == key.len = AES_256_KEY_LEN

KeyStream(key, nonce, i) == (key.k + SumSeq(nonce) + i) % 8

\* The authentication tag, TagLen bytes: both bytes depend on the key and on
\* every byte of the nonce and the ciphertext, so that no single altered byte
\* and no other key reproduces it
TagLen == 2

AuthTag(key, nonce, ct) ==
    LET data == nonce \o ct
    IN  <<(key.k + SumSeq(data) + Len(ct)) % 8,
          (key.k + 3 * SumSeq(data) + Len(ct)) % 8>>

\* LessSafeKey::seal_in_place_append_tag with empty associated data
seal_in_place_append_tag(key, nonce, in_out) ==
    LET ct == [i \in 1..Len(in_out) |-> (in_out[i] + KeyStream(key, nonce, i)) % 8]
    IN  ct \o AuthTag(key, nonce, ct)

\* Variant of open_in_place: the tag is dropped without being compared
open_in_place_Unauthenticated(key, nonce, in_out) ==
    IF Len(in_out) < TagLen THEN [ok |-> FALSE, val |-> <<>>, in_out |-> in_out]
    ELSE LET ct  == SubSeq(in_out, 1, Len(in_out) - TagLen)
             tag == SubSeq(in_out, Len(in_out) - TagLen + 1, Len(in_out))
             plaintext == [i \in 1..Len(ct) |->
                             (ct[i] + 8 - KeyStream(key, nonce, i)) % 8]
         IN  [ok |-> TRUE, val |-> plaintext, in_out |-> plaintext \o tag]

\* LessSafeKey::open_in_place with empty associated data. `val` is the slice
\* it returns, the plaintext without the tag; `in_out` is the caller's buffer
\* afterwards: a slice cannot change its length, so the buffer holds the
\* plaintext followed by the TagLen bytes of the tag
open_in_place(key, nonce, in_out) ==
    IF Len(in_out) < TagLen THEN [ok |-> FALSE, val |-> <<>>, in_out |-> in_out]
    ELSE LET ct  == SubSeq(in_out, 1, Len(in_out) - TagLen)
             tag == SubSeq(in_out, Len(in_out) - TagLen + 1, Len(in_out))
             plaintext == [i \in 1..Len(ct) |->
                             (ct[i] + 8 - KeyStream(key, nonce, i)) % 8]
         IN  IF AuthTag(key, nonce, ct) # tag
             THEN [ok |-> FALSE, val |-> <<>>, in_out |-> in_out]
             ELSE [ok |-> TRUE, val |-> plaintext, in_out |-> plaintext \o tag]

\* WebHookSecret with its token replaced
WithToken(secret, token) ==
    [kind |-> secret.kind, name |-> secret.name, prefix |-> secret.prefix,
     token |-> token]

\* Variant of encrypt_me: the prefix is not copied into the result
encrypt_me_PrefixDropped(self, key, nonce_bytes) ==
    IF ~UnboundKey_new(key) THEN [ok |-> FALSE, val |-> self]
    ELSE LET in_out == seal_in_place_append_tag(key, nonce_bytes, as_bytes(self.token))
             encrypted_decoded_token == b64_encode(nonce_bytes \o in_out)
         IN  [ok |-> TRUE,
              val |-> [WithToken(self, encrypted_decoded_token) EXCEPT !.prefix = None]]

\* WebHookSecret::encrypt_me; nonce_bytes is what SystemRandom::fill drew
encrypt_me(self, key, nonce_bytes) ==
    IF ~UnboundKey_new(key) THEN [ok |-> FALSE, val |-> self]
    ELSE LET in_out == seal_in_place_append_tag(key, nonce_bytes, as_bytes(self.token))
             encrypted_decoded_token == b64_encode(nonce_bytes \o in_out)
         IN  [ok |-> TRUE, val |-> WithToken(self, encrypted_decoded_token)]

\* WebHookSecret::decrypt_me: "Ok", "Err", or "Panic" (split_at past the end).
\* The slice open_in_place returns is dropped (`Ok(_) => ()`) and the whole
\* buffer in_out is handed to String::from_utf8
decrypt_me(self, key) ==
    LET decoded == b64_decode(self.token)
    IN  IF ~decoded.ok THEN [kind |-> "Err", val |-> self]
        ELSE IF Len(decoded.val) < NonceLen THEN [kind |-> "Panic", val |-> self]
        ELSE IF ~UnboundKey_new(key) THEN [kind |-> "Err", val |-> self]
        ELSE LET nonce_bytes == SubSeq(decoded.val, 1, NonceLen)
                 ciphertext  == SubSeq(decoded.val, NonceLen + 1, Len(decoded.val))
                 opened      == open_in_place(key, nonce_bytes, ciphertext)
             IN  IF ~opened.ok THEN [kind |-> "Err", val |-> self]
                 ELSE LET response == from_utf8(opened.in_out)
                      IN  IF ~response.ok THEN [kind |-> "Err", val |-> self]
                          ELSE [kind |-> "Ok", val |-> WithToken(self, response.val)]

(***************************************************************************)
(* Webhook records and the webhook repositories                            *)
(***************************************************************************)

WebHookTrigger ==
    {"CreateSubscriptionAccount", "CreateUserAccount", "InviteGuestAccount",
     "UpdateSubscriptionAccount", "UpdateUserAccount",
     "DeleteSubscriptionAccount", "DeleteUserAccount", "UninviteGuestAccount"}

\* The fixed placeholder a redacted token is replaced with
REDACTED == <<"*", "*", "*">>

\* WebHook::redact_secret_token
redact_secret_token(webhook) ==
    [webhook EXCEPT !.secret =
        IF webhook.secret = None THEN None
        ELSE Some(WithToken(webhook.secret[1], REDACTED))]

\* WebHook::new followed by the assignments of id and is_active
WebHookFromRecord(record) ==
    [id |-> Some(record.id), name |-> record.name, description |-> record.description,
     url |-> record.url, trigger |-> record.trigger, secret |-> record.secret,
     is_active |-> record.is_active]

\* Variant of list_by_trigger: the query filters on the trigger only
list_by_trigger_AnyActivity(table, trig) ==
    LET res == SelectSeq(table, LAMBDA r : r.trigger = trig)
        response == [i \in 1..Len(res) |-> WebHookFromRecord(res[i])]
    IN  IF Len(response) = 0
        THEN [kind |-> "NotFound", records |-> <<>>]
        ELSE [kind |-> "Found", records |-> response]

\* WebHookFetchingSqlDbRepository::list_by_trigger, the query and its mapping
list_by_trigger(table, trig) ==
    LET res == SelectSeq(table, LAMBDA r : r.trigger = trig /\ r.is_active = TRUE)
        response == [i \in 1..Len(res) |-> WebHookFromRecord(res[i])]
    IN  IF Len(response) = 0
        THEN [kind |-> "NotFound", records |-> <<>>]
        ELSE [kind |-> "Found", records |-> response]

\* String::contains as the query filters use it
Contains(str, term) ==
    \E k \in 0..(Len(str) - Len(term)) : SubSeq(str, k + 1, k + Len(term)) = term

RepoErr == [kind |-> "Err", records |-> <<>>]

\* Variant of WebHookFetching_get: the record is returned as it is stored
WebHookFetching_get_Unredacted(table, id, db_ok) ==
    IF ~db_ok THEN RepoErr
    ELSE LET res == SelectSeq(table, LAMBDA r : r.id = id)
         IN  IF res = <<>> THEN [kind |-> "NotFound", records |-> <<>>]
             ELSE [kind |-> "Found", records |-> <<WebHookFromRecord(res[1])>>]

\* WebHookFetchingSqlDbRepository::get
WebHookFetching_get(table, id, db_ok) ==
    IF ~db_ok THEN RepoErr
    ELSE LET res == SelectSeq(table, LAMBDA r : r.id = id)
         IN  IF res = <<>> THEN [kind |-> "NotFound", records |-> <<>>]
             ELSE [kind |-> "Found",
                   records |-> <<redact_secret_token(WebHookFromRecord(res[1]))>>]

\* WebHookFetchingSqlDbRepository::list
WebHookFetching_list(table, name, trig, db_ok) ==
    IF ~db_ok THEN RepoErr
    ELSE LET res == SelectSeq(table, LAMBDA r :
                        /\ name # None => Contains(r.name, name[1])
                        /\ trig # None => r.trigger = trig[1])
             response == [i \in 1..Len(res) |->
                            redact_secret_token(WebHookFromRecord(res[i]))]
         IN  IF Len(response) = 0 THEN [kind |-> "NotFound", records |-> <<>>]
             ELSE [kind |-> "Found", records |-> response]

\* WebHookFetchingSqlDbRepository::list_by_trigger
WebHookFetching_list_by_trigger(table, trig, db_ok) ==
    IF ~db_ok THEN RepoErr ELSE list_by_trigger(table, trig)

\* WebHookRegistrationSqlDbRepository::create
WebHookRegistration_create(table, webhook, db_ok) ==
    IF ~db_ok THEN [result |-> RepoErr, table |-> table]
    ELSE LET record == [id |-> Len(table) + 1, name |-> webhook.name,
                        description |-> webhook.description, url |-> webhook.url,
                        trigger |-> webhook.trigger, is_active |-> webhook.is_active,
                        secret |-> webhook.secret]
         IN  [result |-> [kind |-> "Created",
                          records |-> <<redact_secret_token(WebHookFromRecord(record))>>],
              table |-> Append(table, record)]

\* Variant of WebHookUpdating_update: the secret of the input is written too
WebHookUpdating_update_SecretSet(table, webhook, db_ok) ==
    IF ~db_ok THEN [result |-> RepoErr, table |-> table]
    ELSE IF webhook.id = None THEN [result |-> RepoErr, table |-> table]
    ELSE IF webhook.id[1] \notin DOMAIN table THEN [result |-> RepoErr, table |-> table]
    ELSE LET record == [table[webhook.id[1]] EXCEPT
                           !.name = webhook.name,
                           !.description = webhook.description,
                           !.url = webhook.url,
                           !.trigger = webhook.trigger,
                           !.is_active = webhook.is_active,
                           !.secret = webhook.secret]
         IN  [result |-> [kind |-> "Updated",
                          records |-> <<redact_secret_token(WebHookFromRecord(record))>>],
              table |-> [table EXCEPT ![webhook.id[1]] = record]]

\* WebHookUpdatingSqlDbRepository::update
WebHookUpdating_update(table, webhook, db_ok) ==
    IF ~db_ok THEN [result |-> RepoErr, table |-> table]
    ELSE IF webhook.id = None THEN [result |-> RepoErr, table |-> table]
    ELSE IF webhook.id[1] \notin DOMAIN table THEN [result |-> RepoErr, table |-> table]
    ELSE LET record == [table[webhook.id[1]] EXCEPT
                           !.name = webhook.name,
                           !.description = webhook.description,
                           !.url = webhook.url,
                           !.trigger = webhook.trigger,
                           !.is_active = webhook.is_active]
         IN  [result |-> [kind |-> "Updated",
                          records |-> <<redact_secret_token(WebHookFromRecord(record))>>],
              table |-> [table EXCEPT ![webhook.id[1]] = record]]

(***************************************************************************)
(* dispatch_webhooks                                                       *)
(***************************************************************************)

MaxHooks == 3

Key(n) == [len |-> AES_256_KEY_LEN, k |-> n]

ZeroNonce == [i \in 1..NonceLen |-> 0]
OtherNonce == [i \in 1..NonceLen |-> IF i = 1 THEN 5 ELSE 2]

HeaderSecret ==
    [kind |-> "AuthorizationHeader", name |-> None, prefix |-> Some("Bearer"),
     token |-> <<"a", "1">>]

QuerySecret ==
    [kind |-> "QueryParameter", name |-> Some("token"), prefix |-> None,
     token |-> <<"0", "a", "*">>]

\* A QueryParameter secret at rest whose tag bytes happen to be text, so that
\* decrypt_me returns Ok: the token it returns is followed by the tag
SealedQuerySecret ==
    encrypt_me(WithToken(QuerySecret, <<"a", "0", "1">>), Key(1), ZeroNonce).val

UrlA == [scheme |-> "https", host |-> "a.example", port |-> None, path |-> "/hook"]
UrlB == [scheme |-> "http", host |-> "b.example", port |-> Some("8080"), path |-> "/"]

StoredHook(url, trig, active, secret) ==
    [name |-> <<"h", "k">>, description |-> None, url |-> url, trigger |-> trig,
     is_active |-> active, secret |-> secret]

\* The kinds of record the webhook table may hold
StoredHooks ==
    { StoredHook(UrlA, "CreateSubscriptionAccount", TRUE, None),
      StoredHook(UrlB, "CreateSubscriptionAccount", TRUE,
                 Some(encrypt_me(HeaderSecret, Key(1), ZeroNonce).val)),
      StoredHook(UrlA, "CreateSubscriptionAccount", TRUE,
                 Some(encrypt_me(QuerySecret, Key(1), OtherNonce).val)),
      StoredHook(UrlA, "CreateSubscriptionAccount", TRUE, Some(SealedQuerySecret)),
      \* a token that is not in the transport encoding
      StoredHook(UrlB, "CreateSubscriptionAccount", TRUE,
                 Some(WithToken(HeaderSecret, REDACTED))),
      \* a token that decodes to fewer bytes than a nonce
      StoredHook(UrlA, "CreateSubscriptionAccount", TRUE,
                 Some(WithToken(QuerySecret, b64_encode(<<1, 2>>)))),
      StoredHook(UrlB, "CreateSubscriptionAccount", FALSE, None),
      StoredHook(UrlA, "UpdateUserAccount", TRUE, None) }

RECURSIVE SeqsUpTo(_, _)
SeqsUpTo(S, n) ==
    IF n = 0 THEN {<<>>}
    ELSE LET shorter == SeqsUpTo(S, n - 1)
         IN  shorter \cup {Append(s, x) : s \in {t \in shorter : Len(t) = n - 1}, x \in S}

WithIds(table) == [i \in 1..Len(table) |-> [id |-> i] @@ table[i]]

\* Variant of MethodOf: the guest triggers are answered like updates
MethodOf_GuestAsUpdate(trig) ==
    CASE trig \in {"CreateSubscriptionAccount", "CreateUserAccount"} -> "POST"
      [] trig \in {"UpdateSubscriptionAccount", "UpdateUserAccount",
                   "InviteGuestAccount", "DeleteUserAccount"} -> "PUT"
      [] trig \in {"DeleteSubscriptionAccount", "UninviteGuestAccount"} -> "DELETE"

\* lines 68-77: the HTTP method of a trigger
MethodOf(trig) ==
    CASE trig \in {"CreateSubscriptionAccount", "CreateUserAccount",
                   "InviteGuestAccount"} -> "POST"
      [] trig \in {"UpdateSubscriptionAccount", "UpdateUserAccount"} -> "PUT"
      [] trig \in {"DeleteSubscriptionAccount", "DeleteUserAccount",
                   "UninviteGuestAccount"} -> "DELETE"

\* lines 99-107: the request builder chosen for a method
VerbOf(method) ==
    CASE method = "POST" -> "POST" [] method = "PUT" -> "PUT"
      [] method = "DELETE" -> "DELETE" [] OTHER -> "POST"

\* lines 91-151: the body of one hook's future, up to the call of send()
BuildRequest(hook, method, key, payload_body) ==
    LET base_request ==
            [method |-> VerbOf(method), url |-> hook.url, headers |-> <<>>,
             query |-> <<>>, json |-> payload_body]
    IN  IF hook.secret = None THEN [kind |-> "Ok", request |-> base_request]
        ELSE LET decrypted == decrypt_me(hook.secret[1], key)
                 s == decrypted.val
             IN  IF decrypted.kind # "Ok"
                 THEN [kind |-> "Panic", request |-> base_request]
                 ELSE IF s.kind = "AuthorizationHeader"
                 THEN LET credential_key ==
                              IF s.name = None THEN "Authorization" ELSE s.name[1]
                          credential_value ==
                              IF s.prefix # None
                              THEN <<s.prefix[1], " ">> \o s.token
                              ELSE s.token
                      IN  [kind |-> "Ok",
                           request |-> [base_request EXCEPT
                               !.headers = <<<<credential_key, credential_value>>>>]]
                 ELSE [kind |-> "Ok",
                       request |-> [base_request EXCEPT
                           !.query = <<<<s.name[1], s.token>>>>]]

\* What the HTTP client may answer to one request
HttpOutcomes ==
    { [kind |-> "Err", status |-> 0, text |-> None],
      [kind |-> "Ok", status |-> 200, text |-> Some(<<"accepted">>)],
      [kind |-> "Ok", status |-> 500, text |-> None] }

\* An endpoint may also answer with what it was sent: the value of a query
\* parameter of the request comes back as the response text
EchoOutcomes(request) ==
    { [kind |-> "Ok", status |-> 200, text |-> Some(request.query[k][2])] :
        k \in DOMAIN request.query }

HttpOutcomesFor(request) == HttpOutcomes \cup EchoOutcomes(request)

\* Variant of HookResponseOf: the failure entry carries the url of the request
HookResponseOf_FailureKeepsUrl(request, outcome) ==
    LET url == request.url
        port == IF url.port = None THEN <<>> ELSE <<":", url.port[1]>>
    IN  IF outcome.kind = "Err"
        THEN [url |-> <<url.scheme, "://", url.host>> \o port \o <<url.path>>,
              status |-> 500, body |-> Some(<<"Error on connect to webhook">>)]
        ELSE [url |-> <<url.scheme, "://", url.host>> \o port \o <<url.path>>,
              status |-> outcome.status, body |-> outcome.text]

\* Variant of HookResponseOf: the recorded url is the whole request url
HookResponseOf_WithQuery(request, outcome) ==
    IF outcome.kind = "Err"
    THEN [url |-> <<>>, status |-> 500, body |-> Some(<<"Error on connect to webhook">>)]
    ELSE LET url == request.url
             port == IF url.port = None THEN <<>> ELSE <<":", url.port[1]>>
             query == IF request.query = <<>> THEN <<>>
                      ELSE <<"?", request.query[1][1], "=">> \o request.query[1][2]
         IN  [url |-> <<url.scheme, "://", url.host>> \o port \o <<url.path>> \o query,
              status |-> outcome.status, body |-> outcome.text]

\* lines 164-189: the HookResponse recorded for one awaited request
HookResponseOf(request, outcome) ==
    IF outcome.kind = "Err"
    THEN [url |-> <<>>, status |-> 500, body |-> Some(<<"Error on connect to webhook">>)]
    ELSE LET url == request.url
             port == IF url.port = None THEN <<>> ELSE <<":", url.port[1]>>
         IN  [url |-> <<url.scheme, "://", url.host>> \o port \o <<url.path>>,
              status |-> outcome.status, body |-> outcome.text]

(***************************************************************************)
(* create_subscription_account and the steps of dispatch_webhooks          *)
(***************************************************************************)

Tenants == {"t1", "t2"}

\* TenantScopedConnectionString values a caller may present
Scopes ==
    { [tenant_id |-> "t1", permissions |-> {<<"TenantManager", "Write">>}],
      [tenant_id |-> "t1", permissions |-> {<<"SubscriptionsManager", "Read">>}],
      [tenant_id |-> "t2", permissions |-> {<<"SubscriptionsManager", "Write">>}] }

\* TenantScopedConnectionString::contain_enough_permissions
contain_enough_permissions(scope, tenant_id, required) ==
    /\ scope.tenant_id = tenant_id
    /\ scope.permissions \cap required # {}

NoArgs == [scope |-> None, tenant_id |-> None, account_name |-> None,
           email |-> None, user |-> None]
NoResponse == [payload |-> None, propagations |-> None]
NoResult == [kind |-> "Pending", response |-> NoResponse]

DispatchIdle ==
    /\ pc = "idle"
    /\ args = NoArgs
    /\ fetched_kind = "None"
    /\ trigger = "CreateSubscriptionAccount"
    /\ payload = None
    /\ account_table = {}
    /\ hooks = <<>>
    /\ bodies = <<>>
    /\ cursor = 1
    /\ responses = <<>>
    /\ sent = {}
    /\ webhook_response = NoResponse
    /\ result = NoResult

NoCall == [name |-> "none", profile |-> None, tenant_id |-> None,
           account_id |-> None, is_archived |-> None, tenant_name |-> None,
           tenant_description |-> None]

NoLocals == [check |-> "none", admin_check |-> "none", related_accounts |-> None,
             account |-> None]

NoUcResult == [kind |-> "Pending", reason |-> "none"]

AuthIdle ==
    /\ accounts = <<>>
    /\ tenants = <<>>
    /\ uc = NoCall
    /\ uc_pc = "off"
    /\ uc_locals = NoLocals
    /\ uc_invoked = {}
    /\ uc_result = NoUcResult

RepoIdle ==
    /\ repo_op = [name |-> "none", id |-> None]
    /\ repo_returned = <<>>

LicIdle ==
    /\ lic_rows = {}
    /\ lic_call = None
    /\ lic_result = None

SecretIdle ==
    /\ sec_input = None
    /\ sec_key = None
    /\ sec_stored = None
    /\ sec_origin = "none"
    /\ sec_decrypt_key = None
    /\ sec_decrypted = None

RoleIdle ==
    /\ role_table = {}
    /\ role_calls = <<>>

ApiIdle ==
    /\ api_args = None
    /\ api_http = None
    /\ error_codes = {}

QueueIdle ==
    /\ q_main = <<>>
    /\ q_processing = <<>>
    /\ q_error = <<>>
    /\ q_pc = "idle"
    /\ q_retries = 0
    /\ q_processed = 0
    /\ q_value = None
    /\ q_result = None
    /\ q_sent = <<>>
    /\ q_run = <<>>

GuestIdle ==
    /\ gu_call = None
    /\ gu_pc = "idle"
    /\ gu_locals = None
    /\ gu_invoked = <<>>
    /\ gu_result = None

TailIdle == QueueIdle /\ GuestIdle

ExtIdle ==
    /\ TailIdle
    /\ LicIdle
    /\ SecretIdle
    /\ RoleIdle
    /\ ApiIdle

Init ==
    /\ config \in {Key(1), Key(2)}
    /\ webhook_table \in {WithIds(t) : t \in SeqsUpTo(StoredHooks, MaxHooks)}
    /\ pc = "start"
    /\ args = NoArgs
    /\ fetched_kind = "None"
    /\ trigger = "CreateSubscriptionAccount"
    /\ payload = None
    /\ account_table = {}
    /\ hooks = <<>>
    /\ bodies = <<>>
    /\ cursor = 1
    /\ responses = <<>>
    /\ sent = {}
    /\ webhook_response = NoResponse
    /\ result = NoResult
    /\ AuthIdle
    /\ RepoIdle
    /\ ExtIdle

\* create_subscription_account, lines 43-49: the permission check
CheckPermissions(scope, tenant_id, account_name) ==
    /\ pc = "start"
    /\ args' = [NoArgs EXCEPT !.scope = Some(scope), !.tenant_id = Some(tenant_id),
                               !.account_name = Some(account_name)]
    /\ IF contain_enough_permissions(scope, tenant_id,
              {<<"TenantManager", "Write">>, <<"SubscriptionsManager", "Write">>})
       THEN pc' = "register" /\ UNCHANGED result
       ELSE pc' = "returned" /\ result' = [kind |-> "Err", response |-> NoResponse]
    /\ UNCHANGED <<extVars, authVars, repoVars, config, webhook_table, fetched_kind, trigger, payload,
                   account_table, hooks, bodies, cursor, responses, sent,
                   webhook_response>>

\* Variant of RegisterAccount: the webhooks are dispatched whatever the
\* repository answered
RegisterAccount_AlwaysDispatch(outcome) ==
    /\ pc = "register"
    /\ LET account == [name |-> args.account_name[1],
                       tenant_id |-> args.tenant_id[1], is_checked |-> TRUE]
       IN  /\ account_table' = IF outcome = "Created" THEN account_table \cup {account}
                                ELSE account_table
           /\ payload' = Some(account)
           /\ trigger' = "CreateSubscriptionAccount"
           /\ pc' = "dispatch"
           /\ UNCHANGED result
    /\ UNCHANGED <<extVars, authVars, repoVars, config, webhook_table, args, fetched_kind, hooks, bodies,
                   cursor, responses, sent, webhook_response>>

\* create_subscription_account, lines 57-72: the registration and its outcome
RegisterAccount(outcome) ==
    /\ pc = "register"
    /\ LET account == [name |-> args.account_name[1],
                       tenant_id |-> args.tenant_id[1], is_checked |-> TRUE]
       IN  IF outcome = "Created"
           THEN /\ account_table' = account_table \cup {account}
                /\ payload' = Some(account)
                /\ trigger' = "CreateSubscriptionAccount"
                /\ pc' = "dispatch"
                /\ UNCHANGED result
           ELSE /\ pc' = "returned"
                /\ result' = [kind |-> "Err", response |-> NoResponse]
                /\ UNCHANGED <<account_table, payload, trigger>>
    /\ UNCHANGED <<extVars, authVars, repoVars, config, webhook_table, args, fetched_kind, hooks, bodies,
                   cursor, responses, sent, webhook_response>>

\* Variant of FetchHooks: an empty lookup is reported as an empty propagation list
FetchHooks_EmptyList(fetched) ==
    /\ pc = "dispatch"
    /\ fetched_kind' = fetched.kind
    /\ IF fetched.kind = "Found"
       THEN /\ hooks' = fetched.records
            /\ bodies' = [i \in 1..Len(fetched.records) |->
                            [state |-> "created", request |-> None, outcome |-> None]]
            /\ pc' = "join_all"
            /\ UNCHANGED webhook_response
       ELSE /\ webhook_response' = [payload |-> payload, propagations |-> Some(<<>>)]
            /\ pc' = "dispatched"
            /\ UNCHANGED <<hooks, bodies>>
    /\ UNCHANGED <<extVars, authVars, repoVars, config, webhook_table, args, trigger, payload,
                   account_table, cursor, responses, sent, result>>

\* dispatch_webhooks, lines 33-62: the hook lookup and the early returns
FetchHooks(fetched) ==
    /\ pc = "dispatch"
    /\ fetched_kind' = fetched.kind
    /\ IF fetched.kind = "Found"
       THEN /\ hooks' = fetched.records
            /\ bodies' = [i \in 1..Len(fetched.records) |->
                            [state |-> "created", request |-> None, outcome |-> None]]
            /\ pc' = "join_all"
            /\ UNCHANGED webhook_response
       ELSE /\ webhook_response' = [payload |-> payload, propagations |-> None]
            /\ pc' = "dispatched"
            /\ UNCHANGED <<hooks, bodies>>
    /\ UNCHANGED <<extVars, authVars, repoVars, config, webhook_table, args, trigger, payload, account_table,
                   cursor, responses, sent, result>>

\* lines 89-152 under join_all: one hook's future runs up to its send() call
PollBody(i) ==
    /\ pc = "join_all"
    /\ i \in DOMAIN bodies
    /\ bodies[i].state = "created"
    /\ LET built == BuildRequest(hooks[i], MethodOf(trigger), config, payload[1])
       IN  IF built.kind = "Panic"
           THEN /\ pc' = "panicked"
                /\ result' = [kind |-> "Panic", response |-> NoResponse]
                /\ UNCHANGED bodies
           ELSE /\ bodies' = [bodies EXCEPT
                               ![i] = [state |-> "ready", request |-> Some(built.request),
                                       outcome |-> None]]
                /\ UNCHANGED <<pc, result>>
    /\ UNCHANGED <<extVars, authVars, repoVars, config, webhook_table, args, fetched_kind, trigger, payload, account_table, hooks,
                   cursor, responses, sent, webhook_response>>

\* line 163: join_all(bodies).await is over once every future returned
JoinAll ==
    /\ pc = "join_all"
    /\ \A i \in DOMAIN bodies : bodies[i].state = "ready"
    /\ pc' = "for_hook_res"
    /\ UNCHANGED <<extVars, authVars, repoVars, config, webhook_table, args, fetched_kind, trigger, payload, account_table, hooks,
                   bodies, cursor, responses, sent, webhook_response, result>>

\* line 164: hook_res.await polls the send() future of hook i for the first time
SendRequest(i) ==
    /\ pc = "for_hook_res"
    /\ cursor = i
    /\ i \in DOMAIN bodies
    /\ bodies[i].state = "ready"
    /\ bodies' = [bodies EXCEPT ![i].state = "in_flight"]
    /\ sent' = sent \cup {[hook |-> hooks[i].id, request |-> bodies[i].request[1]]}
    /\ UNCHANGED <<extVars, authVars, repoVars, config, webhook_table, pc, args, fetched_kind, trigger, payload, account_table,
                   hooks, cursor, responses, webhook_response, result>>

\* Variant of ReceiveResponse: a failed request is skipped without an entry
ReceiveResponse_SkipFailure(i, outcome) ==
    /\ pc = "for_hook_res"
    /\ i \in DOMAIN bodies
    /\ bodies[i].state = "in_flight"
    /\ outcome \in HttpOutcomesFor(bodies[i].request[1])
    /\ bodies' = [bodies EXCEPT ![i].state = "done", ![i].outcome = Some(outcome)]
    /\ responses' = IF outcome.kind = "Err" THEN responses
                    ELSE Append(responses, HookResponseOf(bodies[i].request[1], outcome))
    /\ cursor' = cursor + 1
    /\ UNCHANGED <<extVars, authVars, repoVars, config, webhook_table, pc, args, fetched_kind,
                   trigger, payload, account_table, hooks, sent, webhook_response,
                   result>>

\* lines 164-189: the awaited request ends and its HookResponse is pushed
ReceiveResponse(i, outcome) ==
    /\ pc = "for_hook_res"
    /\ i \in DOMAIN bodies
    /\ bodies[i].state = "in_flight"
    /\ outcome \in HttpOutcomesFor(bodies[i].request[1])
    /\ bodies' = [bodies EXCEPT ![i].state = "done", ![i].outcome = Some(outcome)]
    /\ responses' = Append(responses, HookResponseOf(bodies[i].request[1], outcome))
    /\ cursor' = cursor + 1
    /\ UNCHANGED <<extVars, authVars, repoVars, config, webhook_table, pc, args, fetched_kind, trigger, payload, account_table,
                   hooks, sent, webhook_response, result>>

\* lines 196-201: the response is completed and returned
ReturnResponse ==
    /\ pc = "for_hook_res"
    /\ cursor > Len(hooks)
    /\ webhook_response' =
           [payload |-> payload,
            propagations |-> IF responses = <<>> THEN None ELSE Some(responses)]
    /\ pc' = "dispatched"
    /\ UNCHANGED <<extVars, authVars, repoVars, config, webhook_table, args, fetched_kind, trigger, payload, account_table, hooks,
                   bodies, cursor, responses, sent, result>>

\* create_subscription_account, line 86: Ok(responses)
ReturnOk ==
    /\ pc = "dispatched"
    /\ result' = [kind |-> "Ok", response |-> webhook_response]
    /\ pc' = "returned"
    /\ UNCHANGED <<extVars, authVars, repoVars, config, webhook_table, args, fetched_kind, trigger, payload, account_table, hooks,
                   bodies, cursor, responses, sent, webhook_response>>

\* The answers that carry back a query token sent by the dispatcher
EchoedTokens ==
    { [kind |-> "Ok", status |-> 200, text |-> Some(decrypt_me(SealedQuerySecret, Key(1)).val.token)] }

\* What WebHookFetching::list_by_trigger may answer
FetchOutcomes ==
    { WebHookFetching_list_by_trigger(webhook_table, trigger, db_ok) :
        db_ok \in BOOLEAN }
    \cup { [kind |-> "FoundPaginated", records |-> <<>>] }

Next ==
    \/ \E scope \in Scopes, tenant_id \in Tenants :
           CheckPermissions(scope, tenant_id, "acc")
    \/ \E outcome \in {"Created", "NotCreated", "Err"} : RegisterAccount(outcome)
    \/ \E fetched \in FetchOutcomes : FetchHooks(fetched)
    \/ \E i \in 1..MaxHooks : PollBody(i)
    \/ JoinAll
    \/ \E i \in 1..MaxHooks : SendRequest(i)
    \/ \E i \in 1..MaxHooks, outcome \in HttpOutcomes \cup EchoedTokens :
           ReceiveResponse(i, outcome)
    \/ ReturnResponse
    \/ ReturnOk

Spec == Init /\ [][Next]_vars

(***************************************************************************)
(* Profiles and the permission checks                                      *)
(***************************************************************************)

AccountIds == {"a1", "a2", "a3"}

BaseProfile ==
    [is_manager |-> FALSE, is_staff |-> FALSE, tenants_ownership |-> {},
     licensed_resources |-> {}]

LicensedResource(acc_id, tenant_id, role, perm) ==
    [acc_id |-> acc_id, tenant_id |-> tenant_id, role |-> role, perm |-> perm]

\* The callers
Profiles ==
    { BaseProfile,
      [BaseProfile EXCEPT !.is_manager = TRUE],
      [BaseProfile EXCEPT !.is_staff = TRUE],
      [BaseProfile EXCEPT !.is_manager = TRUE, !.is_staff = TRUE],
      [BaseProfile EXCEPT !.tenants_ownership = {"t1"}],
      [BaseProfile EXCEPT !.licensed_resources =
          {LicensedResource("a1", "t1", "TenantManager", "Write")}],
      [BaseProfile EXCEPT !.licensed_resources =
          {LicensedResource("a1", "t1", "TenantManager", "Read"),
           LicensedResource("a2", "t2", "TenantManager", "ReadWrite")}],
      [BaseProfile EXCEPT !.licensed_resources =
          {LicensedResource("a2", "t1", "SubscriptionsManager", "Write")}] }

\* Profile::has_admin_privileges_or_error
has_admin_privileges_or_error(profile) == profile.is_manager \/ profile.is_staff

\* Profile::with_tenant_ownership_or_error
with_tenant_ownership_or_error(profile, tenant_id) ==
    tenant_id \in profile.tenants_ownership

PermissionRank(perm) ==
    CASE perm = "Read" -> 1 [] perm = "Write" -> 2 [] perm = "ReadWrite" -> 3

\* Profile::on_tenant(..).get_related_account_with_default_write_or_error
get_related_account_with_default_write_or_error(profile, tenant_id, roles) ==
    IF has_admin_privileges_or_error(profile)
    THEN [ok |-> TRUE, val |-> [kind |-> "AllAccounts", ids |-> {}]]
    ELSE LET ids == {lr.acc_id : lr \in
                       {l \in profile.licensed_resources :
                           /\ l.tenant_id = tenant_id
                           /\ l.role \in roles
                           /\ PermissionRank(l.perm) >= PermissionRank("Write")}}
         IN  IF ids = {}
             THEN [ok |-> FALSE, val |-> [kind |-> "AllowedAccounts", ids |-> {}]]
             ELSE [ok |-> TRUE, val |-> [kind |-> "AllowedAccounts", ids |-> ids]]

(***************************************************************************)
(* Account and tenant repositories                                         *)
(***************************************************************************)

UcErr(reason) == [kind |-> "Err", reason |-> reason]
UcOk == [kind |-> "Ok", reason |-> "none"]

\* Variant of AccountDeletion_delete: the allowed accounts are not consulted
AccountDeletion_delete_Unscoped(table, account_id, related_accounts, db_ok) ==
    IF ~db_ok \/ ~table[account_id].exists
    THEN [result |-> UcErr("database"), table |-> table]
    ELSE [result |-> UcOk, table |-> [table EXCEPT ![account_id].exists = FALSE]]

\* AccountDeletionSqlDbRepository::delete; db_ok: the client and the query work
AccountDeletion_delete(table, account_id, related_accounts, db_ok) ==
    IF related_accounts.kind = "AllowedAccounts"
       /\ account_id \notin related_accounts.ids
    THEN [result |-> UcErr("account_not_allowed"), table |-> table]
    ELSE IF ~db_ok \/ ~table[account_id].exists
    THEN [result |-> UcErr("database"), table |-> table]
    ELSE [result |-> UcOk, table |-> [table EXCEPT ![account_id].exists = FALSE]]

\* AccountFetching::get
AccountFetching_get(table, account_id, outcome) ==
    IF outcome = "Err" THEN [kind |-> "Err", account |-> None]
    ELSE IF ~table[account_id].exists THEN [kind |-> "NotFound", account |-> None]
    ELSE [kind |-> "Found",
          account |-> Some([id |-> IF outcome = "FoundWithoutId" THEN None
                                   ELSE Some(account_id),
                            is_archived |-> table[account_id].is_archived,
                            account_type |-> table[account_id].account_type])]

\* AccountUpdatingSqlDbRepository::update
AccountUpdating_update(table, account, db_ok) ==
    IF account.id = None THEN [result |-> UcErr("invalid_record_id"), table |-> table]
    ELSE IF ~db_ok \/ ~table[account.id[1]].exists
    THEN [result |-> UcErr("database"), table |-> table]
    ELSE [result |-> UcOk,
          table |-> [table EXCEPT ![account.id[1]].is_archived = account.is_archived,
                                  ![account.id[1]].account_type = account.account_type]]

\* TenantUpdating::update_name_and_description
TenantUpdating_update_name_and_description(table, tenant_id, name, description, db_ok) ==
    IF ~db_ok THEN [result |-> UcErr("database"), table |-> table]
    ELSE [result |-> UcOk,
          table |-> [table EXCEPT
              ![tenant_id].name = IF name = None THEN @ ELSE name[1],
              ![tenant_id].description = IF description = None THEN @ ELSE description]]

(***************************************************************************)
(* The profile-gated use cases                                             *)
(***************************************************************************)

Call(name, profile) == [NoCall EXCEPT !.name = name, !.profile = Some(profile)]

\* Variant of DeleteSubscriptionAccount_Check: a failed check is not returned
DeleteSubscriptionAccount_Check_Ignored(profile, tenant_id, account_id) ==
    /\ uc_pc = "idle"
    /\ uc' = [Call("delete_subscription_account", profile) EXCEPT
                 !.tenant_id = Some(tenant_id), !.account_id = Some(account_id)]
    /\ uc_invoked' = {}
    /\ LET related == get_related_account_with_default_write_or_error(
                          profile, tenant_id, {"TenantManager"})
       IN  uc_locals' = [NoLocals EXCEPT
                            !.check = IF related.ok THEN "ok" ELSE "err",
                            !.related_accounts =
                                IF related.ok THEN Some(related.val)
                                ELSE Some([kind |-> "AllAccounts", ids |-> {}])]
    /\ uc_pc' = "delete"
    /\ uc_result' = NoUcResult
    /\ UNCHANGED <<accounts, tenants, extVars, dispatchVars, repoVars, config, webhook_table>>

\* delete_subscription_account, lines 25-29
DeleteSubscriptionAccount_Check(profile, tenant_id, account_id) ==
    /\ uc_pc = "idle"
    /\ uc' = [Call("delete_subscription_account", profile) EXCEPT
                 !.tenant_id = Some(tenant_id), !.account_id = Some(account_id)]
    /\ uc_invoked' = {}
    /\ LET related == get_related_account_with_default_write_or_error(
                          profile, tenant_id, {"TenantManager"})
       IN  IF related.ok
           THEN /\ uc_locals' = [NoLocals EXCEPT !.check = "ok",
                                    !.related_accounts = Some(related.val)]
                /\ uc_pc' = "delete"
                /\ uc_result' = NoUcResult
           ELSE /\ uc_locals' = [NoLocals EXCEPT !.check = "err"]
                /\ uc_pc' = "returned"
                /\ uc_result' = UcErr("insufficient_scoped_permissions")
    /\ UNCHANGED <<accounts, tenants, extVars, dispatchVars, repoVars, config, webhook_table>>

\* delete_subscription_account, lines 35-37
DeleteSubscriptionAccount_Delete(db_ok) ==
    /\ uc_pc = "delete"
    /\ LET r == AccountDeletion_delete(accounts, uc.account_id[1],
                                       uc_locals.related_accounts[1], db_ok)
       IN  /\ accounts' = r.table
           /\ uc_result' = r.result
    /\ uc_invoked' = uc_invoked \cup {"account_deletion.delete"}
    /\ uc_pc' = "returned"
    /\ UNCHANGED <<tenants, uc, uc_locals, extVars, dispatchVars, repoVars, config,
                   webhook_table>>

\* update_tenant_name_and_description, line 27
UpdateTenant_Check(profile, tenant_id, tenant_name, tenant_description) ==
    /\ uc_pc = "idle"
    /\ uc' = [Call("update_tenant_name_and_description", profile) EXCEPT
                 !.tenant_id = Some(tenant_id), !.tenant_name = tenant_name,
                 !.tenant_description = tenant_description]
    /\ uc_invoked' = {}
    /\ IF with_tenant_ownership_or_error(profile, tenant_id)
       THEN /\ uc_locals' = [NoLocals EXCEPT !.check = "ok"]
            /\ uc_pc' = "update_tenant"
            /\ uc_result' = NoUcResult
       ELSE /\ uc_locals' = [NoLocals EXCEPT !.check = "err"]
            /\ uc_pc' = "returned"
            /\ uc_result' = UcErr("not_tenant_owner")
    /\ UNCHANGED <<accounts, tenants, extVars, dispatchVars, repoVars, config, webhook_table>>

\* update_tenant_name_and_description, lines 33-35
UpdateTenant_Update(db_ok) ==
    /\ uc_pc = "update_tenant"
    /\ LET r == TenantUpdating_update_name_and_description(
                    tenants, uc.tenant_id[1], uc.tenant_name,
                    uc.tenant_description, db_ok)
       IN  /\ tenants' = r.table
           /\ uc_result' = r.result
    /\ uc_invoked' = uc_invoked \cup {"tenant_updating.update_name_and_description"}
    /\ uc_pc' = "returned"
    /\ UNCHANGED <<accounts, uc, uc_locals, extVars, dispatchVars, repoVars, config,
                   webhook_table>>

\* change_account_archival_status, lines 28-40
ChangeArchival_Fetch(profile, account_id, is_archived, outcome) ==
    /\ uc_pc = "idle"
    /\ uc' = [Call("change_account_archival_status", profile) EXCEPT
                 !.account_id = Some(account_id), !.is_archived = Some(is_archived)]
    /\ uc_invoked' = {"account_fetching.get"}
    /\ LET res == AccountFetching_get(accounts, account_id, outcome)
       IN  IF res.kind = "Found"
           THEN /\ uc_locals' = [NoLocals EXCEPT !.account = res.account]
                /\ uc_pc' = "archival_checks"
                /\ uc_result' = NoUcResult
           ELSE /\ uc_locals' = NoLocals
                /\ uc_pc' = "returned"
                /\ uc_result' = IF res.kind = "Err" THEN UcErr("database")
                                ELSE UcErr("invalid_account_id")
    /\ UNCHANGED <<accounts, tenants, extVars, dispatchVars, repoVars, config, webhook_table>>

\* Variant of ArchivalChecks: only is_manager passes the privilege check
ArchivalChecks_ManagerOnly(profile, account) ==
    IF account.id = None
    THEN [admin_check |-> "none", verdict |-> "target_not_checked"]
    ELSE IF ~profile.is_manager
    THEN [admin_check |-> "err", verdict |-> "insufficient_privileges"]
    ELSE IF account.account_type.kind = "Id"
    THEN [admin_check |-> "ok", verdict |-> "account_type_not_checked"]
    ELSE IF profile.is_manager /\ ~profile.is_staff /\ account.account_type.is_staff
    THEN [admin_check |-> "ok", verdict |-> "more_privileges_than_manager"]
    ELSE [admin_check |-> "ok", verdict |-> "ok"]

\* Variant of ArchivalChecks: the target's account type is not compared
ArchivalChecks_NoStaffGuard(profile, account) ==
    IF account.id = None
    THEN [admin_check |-> "none", verdict |-> "target_not_checked"]
    ELSE IF ~(profile.is_manager \/ profile.is_staff)
    THEN [admin_check |-> "err", verdict |-> "insufficient_privileges"]
    ELSE IF account.account_type.kind = "Id"
    THEN [admin_check |-> "ok", verdict |-> "account_type_not_checked"]
    ELSE [admin_check |-> "ok", verdict |-> "ok"]

\* change_account_archival_status, lines 47-101: the checks, in order
ArchivalChecks(profile, account) ==
    IF account.id = None
    THEN [admin_check |-> "none", verdict |-> "target_not_checked"]
    ELSE IF ~(profile.is_manager \/ profile.is_staff)
    THEN [admin_check |-> "err", verdict |-> "insufficient_privileges"]
    ELSE IF account.account_type.kind = "Id"
    THEN [admin_check |-> "ok", verdict |-> "account_type_not_checked"]
    ELSE IF profile.is_manager /\ ~profile.is_staff /\ account.account_type.is_staff
    THEN [admin_check |-> "ok", verdict |-> "more_privileges_than_manager"]
    ELSE [admin_check |-> "ok", verdict |-> "ok"]

\* change_account_archival_status, lines 47-101
ChangeArchival_Checks ==
    /\ uc_pc = "archival_checks"
    /\ LET c == ArchivalChecks(uc.profile[1], uc_locals.account[1])
       IN  /\ uc_locals' = [uc_locals EXCEPT
                               !.admin_check = c.admin_check,
                               !.check = IF c.verdict = "ok" THEN "ok" ELSE "err"]
           /\ IF c.verdict = "ok"
              THEN uc_pc' = "update_account" /\ UNCHANGED uc_result
              ELSE uc_pc' = "returned" /\ uc_result' = UcErr(c.verdict)
    /\ UNCHANGED <<accounts, tenants, uc, uc_invoked, extVars, dispatchVars, repoVars, config,
                   webhook_table>>

\* change_account_archival_status, lines 107-109
ChangeArchival_Update(db_ok) ==
    /\ uc_pc = "update_account"
    /\ LET account == [uc_locals.account[1] EXCEPT !.is_archived = uc.is_archived[1]]
           r == AccountUpdating_update(accounts, account, db_ok)
       IN  /\ accounts' = r.table
           /\ uc_result' = r.result
    /\ uc_invoked' = uc_invoked \cup {"account_updating.update"}
    /\ uc_pc' = "returned"
    /\ UNCHANGED <<tenants, uc, uc_locals, extVars, dispatchVars, repoVars, config,
                   webhook_table>>

\* list_tenant, line 40
ListTenant_Check(profile) ==
    /\ uc_pc = "idle"
    /\ uc' = Call("list_tenant", profile)
    /\ uc_invoked' = {}
    /\ IF has_admin_privileges_or_error(profile)
       THEN /\ uc_locals' = [NoLocals EXCEPT !.check = "ok", !.admin_check = "ok"]
            /\ uc_pc' = "filter_tenants"
            /\ uc_result' = NoUcResult
       ELSE /\ uc_locals' = [NoLocals EXCEPT !.check = "err", !.admin_check = "err"]
            /\ uc_pc' = "returned"
            /\ uc_result' = UcErr("insufficient_privileges")
    /\ UNCHANGED <<accounts, tenants, extVars, dispatchVars, repoVars, config, webhook_table>>

\* list_tenant, lines 46-59
ListTenant_Filter(db_ok) ==
    /\ uc_pc = "filter_tenants"
    /\ uc_invoked' = uc_invoked \cup {"tenant_fetching.filter_tenants_as_manager"}
    /\ uc_result' = IF db_ok THEN UcOk ELSE UcErr("database")
    /\ uc_pc' = "returned"
    /\ UNCHANGED <<accounts, tenants, uc, uc_locals, extVars, dispatchVars, repoVars, config,
                   webhook_table>>

\* The use case has returned; the next request may come
NextRequest ==
    /\ uc_pc = "returned"
    /\ uc_pc' = "idle"
    /\ uc' = NoCall
    /\ uc_locals' = NoLocals
    /\ uc_invoked' = {}
    /\ uc_result' = NoUcResult
    /\ UNCHANGED <<accounts, tenants, extVars, dispatchVars, repoVars, config, webhook_table>>

InitAuth ==
    /\ accounts =
          [a \in AccountIds |->
             [exists |-> TRUE, is_archived |-> FALSE,
              account_type |->
                 CASE a = "a1" -> [kind |-> "Record", is_staff |-> FALSE]
                   [] a = "a2" -> [kind |-> "Record", is_staff |-> TRUE]
                   [] a = "a3" -> [kind |-> "Id", is_staff |-> FALSE]]]
    /\ tenants = [t \in Tenants |-> [name |-> "tenant", description |-> None]]
    /\ uc = NoCall
    /\ uc_pc = "idle"
    /\ uc_locals = NoLocals
    /\ uc_invoked = {}
    /\ uc_result = NoUcResult
    /\ DispatchIdle
    /\ RepoIdle
    /\ ExtIdle
    /\ config = Key(1)
    /\ webhook_table = <<>>

NextAuth ==
    \/ \E profile \in Profiles, tenant_id \in Tenants, account_id \in AccountIds :
           DeleteSubscriptionAccount_Check(profile, tenant_id, account_id)
    \/ \E db_ok \in BOOLEAN : DeleteSubscriptionAccount_Delete(db_ok)
    \/ \E profile \in Profiles, tenant_id \in Tenants,
          tenant_name \in {None, Some("renamed")},
          tenant_description \in {None, Some("described")} :
           UpdateTenant_Check(profile, tenant_id, tenant_name, tenant_description)
    \/ \E db_ok \in BOOLEAN : UpdateTenant_Update(db_ok)
    \/ \E profile \in Profiles, account_id \in AccountIds, is_archived \in BOOLEAN,
          outcome \in {"Err", "Found", "FoundWithoutId"} :
           ChangeArchival_Fetch(profile, account_id, is_archived, outcome)
    \/ ChangeArchival_Checks
    \/ \E db_ok \in BOOLEAN : ChangeArchival_Update(db_ok)
    \/ \E profile \in Profiles : ListTenant_Check(profile)
    \/ \E db_ok \in BOOLEAN : ListTenant_Filter(db_ok)
    \/ NextRequest

SpecAuth == InitAuth /\ [][NextAuth]_vars

(***************************************************************************)
(* The webhook repositories in use                                         *)
(***************************************************************************)

MaxStored == 2

\* The WebHook values callers hand to create and update
InputWebHook(id, name, trig, active, secret) ==
    [id |-> id, name |-> name, description |-> Some("d"), url |-> UrlA,
     trigger |-> trig, is_active |-> active, secret |-> secret]

InputSecrets ==
    { None,
      Some(encrypt_me(HeaderSecret, Key(1), ZeroNonce).val),
      Some(encrypt_me(QuerySecret, Key(1), OtherNonce).val) }

CreateInputs ==
    { InputWebHook(None, <<"h", "k">>, "CreateSubscriptionAccount", TRUE, secret) :
        secret \in InputSecrets }

UpdateInputs ==
    { [InputWebHook(id, <<"k">>, "UpdateUserAccount", active, secret)
          EXCEPT !.description = None, !.url = UrlB] :
        id \in {None} \cup {Some(i) : i \in 1..(MaxStored + 1)},
        active \in BOOLEAN, secret \in InputSecrets }

Repo_get(id, db_ok) ==
    /\ repo_op' = [name |-> "get", id |-> Some(id)]
    /\ repo_returned' = WebHookFetching_get(webhook_table, id, db_ok).records
    /\ UNCHANGED <<webhook_table, config, extVars, dispatchVars, authVars>>

Repo_list(name, trig, db_ok) ==
    /\ repo_op' = [name |-> "list", id |-> None]
    /\ repo_returned' = WebHookFetching_list(webhook_table, name, trig, db_ok).records
    /\ UNCHANGED <<webhook_table, config, extVars, dispatchVars, authVars>>

Repo_list_by_trigger(trig, db_ok) ==
    /\ repo_op' = [name |-> "list_by_trigger", id |-> None]
    /\ repo_returned' =
           WebHookFetching_list_by_trigger(webhook_table, trig, db_ok).records
    /\ UNCHANGED <<webhook_table, config, extVars, dispatchVars, authVars>>

Repo_create(webhook, db_ok) ==
    /\ Len(webhook_table) < MaxStored
    /\ LET r == WebHookRegistration_create(webhook_table, webhook, db_ok)
       IN  /\ webhook_table' = r.table
           /\ repo_returned' = r.result.records
    /\ repo_op' = [name |-> "create", id |-> None]
    /\ UNCHANGED <<config, extVars, dispatchVars, authVars>>

Repo_update(webhook, db_ok) ==
    /\ LET r == WebHookUpdating_update(webhook_table, webhook, db_ok)
       IN  /\ webhook_table' = r.table
           /\ repo_returned' = r.result.records
    /\ repo_op' = [name |-> "update", id |-> webhook.id, webhook |-> webhook]
    /\ UNCHANGED <<config, extVars, dispatchVars, authVars>>

InitWebHooks ==
    /\ webhook_table = <<>>
    /\ config = Key(1)
    /\ repo_op = [name |-> "none", id |-> None]
    /\ repo_returned = <<>>
    /\ DispatchIdle
    /\ AuthIdle
    /\ ExtIdle

NextWebHooks ==
    \/ \E id \in 1..(MaxStored + 1), db_ok \in BOOLEAN : Repo_get(id, db_ok)
    \/ \E name \in {None, Some(<<"k">>), Some(<<"h">>)},
          trig \in {None, Some("CreateSubscriptionAccount")}, db_ok \in BOOLEAN :
           Repo_list(name, trig, db_ok)
    \/ \E trig \in {"CreateSubscriptionAccount", "UpdateUserAccount"},
          db_ok \in BOOLEAN : Repo_list_by_trigger(trig, db_ok)
    \/ \E webhook \in CreateInputs, db_ok \in BOOLEAN : Repo_create(webhook, db_ok)
    \/ \E webhook \in UpdateInputs, db_ok \in BOOLEAN : Repo_update(webhook, db_ok)

SpecWebHooks == InitWebHooks /\ [][NextWebHooks]_vars

(***************************************************************************)
(* Properties of dispatch_webhooks and create_subscription_account         *)
(***************************************************************************)

DispatchReturned == pc \in {"dispatched", "returned"} /\ fetched_kind = "Found"

IsFailureEntry(r) ==
    r.url = <<>> /\ r.status = 500 /\ r.body = Some(<<"Error on connect to webhook">>)

\* C1: when list_by_trigger found N >= 1 hooks and dispatch_webhooks returns,
\* every request has been awaited to its end and propagations is Some(list)
\* with exactly N entries, entry i being the outcome of the request to hook i:
\* the failure entry if that request failed, its status and text otherwise.
C1_EveryOutcomeRecorded ==
    DispatchReturned =>
        /\ Len(hooks) >= 1
        /\ webhook_response.propagations # None
        /\ LET list == webhook_response.propagations[1]
           IN  /\ Len(list) = Len(hooks)
               /\ \A i \in DOMAIN hooks :
                    /\ bodies[i].state = "done"
                    /\ IF bodies[i].outcome[1].kind = "Err"
                       THEN IsFailureEntry(list[i])
                       ELSE /\ list[i].status = bodies[i].outcome[1].status
                            /\ list[i].body = bodies[i].outcome[1].text
                            /\ list[i].url[3] = hooks[i].url.host

\* C1 witness: three hooks, the second unreachable, the others answered
C1_Witness ==
    /\ pc = "returned"
    /\ result.kind = "Ok"
    /\ Len(hooks) = 3
    /\ Len(result.response.propagations[1]) = 3
    /\ bodies[1].outcome[1].kind = "Ok"
    /\ bodies[2].outcome[1].kind = "Err"
    /\ bodies[3].outcome[1].kind = "Ok"

DecryptFails(hook) ==
    hook.secret # None /\ decrypt_me(hook.secret[1], config).kind # "Ok"

\* C2: a hook whose secret cannot be decrypted does not make dispatch_webhooks
\* panic; when dispatch returns that hook has a failure entry and every other
\* hook of the dispatch has been requested and recorded.
C2_DecryptFailureContained ==
    /\ pc # "panicked"
    /\ DispatchReturned =>
          /\ Len(responses) = Len(hooks)
          /\ \A i \in DOMAIN hooks :
                /\ DecryptFails(hooks[i]) => IsFailureEntry(responses[i])
                /\ ~DecryptFails(hooks[i]) => \E r \in sent : r.hook = hooks[i].id

\* C3: while the request to one hook is in flight, the request to every other
\* hook that is ready to be sent can start: no request waits for the completion
\* of another.
C3_RequestsAreConcurrent ==
    \A i \in DOMAIN bodies, j \in DOMAIN bodies :
        (i # j /\ bodies[j].state = "in_flight" /\ bodies[i].state = "ready")
            => ENABLED SendRequest(i)

\* C5: when the repository reports NotFound, dispatch_webhooks has sent no
\* request and returns propagations = None with the payload it was given.
C5_NotFoundReturnsPayloadOnly ==
    (pc \in {"dispatched", "returned"} /\ fetched_kind = "NotFound") =>
        /\ sent = {}
        /\ webhook_response.propagations = None
        /\ webhook_response.payload = payload
        /\ payload # None /\ payload[1] \in account_table

\* C5 witness: a dispatch that ended on NotFound although the table holds hooks
C5_Witness ==
    /\ pc = "returned" /\ fetched_kind = "NotFound" /\ result.kind = "Ok"
    /\ Len(webhook_table) >= 2

\* C6: once the account is registered the call does not fail: whatever the hook
\* lookup and the requests answer, create_subscription_account returns Ok with
\* a response that carries the registered account.
C6_PropagationNeverFailsTheCall ==
    payload # None =>
        /\ result.kind \in {"Pending", "Ok"}
        /\ pc = "returned" => (result.kind = "Ok" /\ result.response.payload = payload)

(***************************************************************************)
(* Properties of the profile-gated use cases                               *)
(***************************************************************************)

MutatingOperations ==
    {"account_deletion.delete", "tenant_updating.update_name_and_description",
     "account_updating.update"}

ProfileGated ==
    {"delete_subscription_account", "update_tenant_name_and_description",
     "change_account_archival_status"}

\* C4: in delete_subscription_account, update_tenant_name_and_description and
\* change_account_archival_status the mutating repository call is made, and the
\* account and tenant tables change, only after the permission check of the
\* running call succeeded; a call whose check failed returns an error.
C4_MutationOnlyAfterCheck ==
    /\ [](uc.name \in ProfileGated =>
             /\ uc_invoked \cap MutatingOperations # {} => uc_locals.check = "ok"
             /\ (uc_pc = "returned" /\ uc_locals.check = "err") =>
                    uc_result.kind = "Err")
    /\ [][(accounts' # accounts \/ tenants' # tenants) =>
             (uc.name \in ProfileGated /\ uc_locals.check = "ok")]_vars

\* C4 witness: a deletion refused by the check, its target still stored, after
\* an earlier call that passed its check archived another account
C4_Witness ==
    /\ uc.name = "delete_subscription_account"
    /\ uc_pc = "returned"
    /\ uc_locals.check = "err"
    /\ uc_result.kind = "Err"
    /\ accounts[uc.account_id[1]].exists
    /\ \E a \in AccountIds : accounts[a].is_archived

AdminGated == {"list_tenant", "change_account_archival_status"}

IsAdmin(profile) == profile.is_manager \/ profile.is_staff

StaffTarget(account) ==
    account.account_type.kind = "Record" /\ account.account_type.is_staff

\* C9: change_account_archival_status by a profile with is_manager and without
\* is_staff on an account whose type has is_staff is denied, the account update
\* is not invoked and the stored archival status stays as it was fetched; for
\* a staff profile the same call reaches the update.
C9_StaffOverride ==
    (uc.name = "change_account_archival_status" /\ uc_locals.account # None
        /\ uc_locals.account[1].id # None /\ StaffTarget(uc_locals.account[1])
        /\ uc_pc \in {"update_account", "returned"}) =>
        /\ (uc.profile[1].is_manager /\ ~uc.profile[1].is_staff) =>
              /\ uc_pc = "returned"
              /\ uc_result = UcErr("more_privileges_than_manager")
              /\ "account_updating.update" \notin uc_invoked
              /\ accounts[uc.account_id[1]].is_archived =
                     uc_locals.account[1].is_archived
        /\ uc.profile[1].is_staff =>
              (uc_pc = "update_account" \/ "account_updating.update" \in uc_invoked)

\* C9 witness: a manager asked to archive the staff account and was refused
C9_Witness ==
    /\ uc.name = "change_account_archival_status"
    /\ uc_pc = "returned"
    /\ uc.profile[1].is_manager /\ ~uc.profile[1].is_staff
    /\ uc.is_archived = Some(TRUE)
    /\ uc_locals.account # None /\ StaffTarget(uc_locals.account[1])
    /\ uc_result = UcErr("more_privileges_than_manager")

\* C10: delete_subscription_account removes account A only when the related
\* accounts of the caller's write check are AllAccounts or AllowedAccounts(ids)
\* with A in ids, and then removes A alone; when A is not in ids it returns an
\* error and no account is removed.
C10_DeleteOnlyRelatedAccounts ==
    /\ []((uc.name = "delete_subscription_account" /\ uc_pc = "returned"
             /\ uc_locals.related_accounts # None) =>
            LET related == uc_locals.related_accounts[1]
                allowed == related.kind = "AllAccounts"
                              \/ uc.account_id[1] \in related.ids
            IN  /\ ~allowed => uc_result = UcErr("account_not_allowed")
                /\ uc_result.kind = "Ok" =>
                      (allowed /\ ~accounts[uc.account_id[1]].exists))
    /\ [][(uc.name = "delete_subscription_account" /\ accounts' # accounts) =>
            /\ uc_locals.related_accounts # None
            /\ \/ uc_locals.related_accounts[1].kind = "AllAccounts"
               \/ uc.account_id[1] \in uc_locals.related_accounts[1].ids
            /\ accounts' = [accounts EXCEPT ![uc.account_id[1]].exists = FALSE]]_vars

\* C10 witness: a tenant manager licensed on a1 asked to delete another account
\* and was refused; the account is still stored
C10_Witness ==
    /\ uc.name = "delete_subscription_account"
    /\ uc_pc = "returned"
    /\ uc_locals.related_accounts # None
    /\ uc_locals.related_accounts[1] = [kind |-> "AllowedAccounts", ids |-> {"a1"}]
    /\ uc.account_id = Some("a2")
    /\ accounts["a2"].exists
    /\ uc_result = UcErr("account_not_allowed")

(***************************************************************************)
(* Properties of the webhook repositories                                  *)
(***************************************************************************)

Redacted(webhook) == webhook.secret # None => webhook.secret[1].token = REDACTED

\* C7 as stated: every WebHook returned by get, list, list_by_trigger, create
\* or update has the token of its secret replaced by the placeholder.
C7_EveryReturnedWebHookRedacted ==
    \A i \in DOMAIN repo_returned : Redacted(repo_returned[i])

\* C7 as amended: every WebHook returned by get, list, create or update has the
\* token of its secret replaced by the placeholder; list_by_trigger returns each
\* secret exactly as it is stored, token included.
C7_ReturnedRedactedExceptByTrigger ==
    /\ repo_op.name \in {"get", "list", "create", "update"} =>
          \A i \in DOMAIN repo_returned : Redacted(repo_returned[i])
    /\ repo_op.name = "list_by_trigger" =>
          \A i \in DOMAIN repo_returned :
              repo_returned[i].secret = webhook_table[repo_returned[i].id[1]].secret

\* C7 witness: get returned a redacted WebHook whose stored token decrypts
C7_Witness ==
    /\ repo_op.name = "get"
    /\ Len(repo_returned) = 1
    /\ repo_returned[1].secret # None
    /\ repo_returned[1].secret[1].token = REDACTED
    /\ LET stored == webhook_table[repo_returned[1].id[1]].secret
       IN  stored # None /\ decrypt_me(stored[1], config).kind = "Ok"

(***************************************************************************)
(* Licensed resources: the (role, permission) filter                       *)
(***************************************************************************)

Permission == {"Read", "Write", "ReadWrite"}

\* `permission.to_owned() as i64`: the discriminant of the Permission variant
Permission_as_i64(perm) ==
    CASE perm = "Read" -> 0 [] perm = "Write" -> 1 [] perm = "ReadWrite" -> 2

\* Permission::from_i32
Permission_from_i32(n) ==
    CASE n = 0 -> "Read" [] n = 1 -> "Write" [] n = 2 -> "ReadWrite" [] OTHER -> "Read"

Roles == {"GuestManager", "SubscriptionsManager"}

\* A row of the licensed_resources view (LicensedResourceRow)
LicensedResourceRow(acc_id, tenant_id, gr_slug, perm, gu_verified) ==
    [acc_id |-> acc_id, tenant_id |-> tenant_id, gr_slug |-> gr_slug,
     gr_perm |-> Permission_as_i64(perm), gu_verified |-> gu_verified]

\* The grants the view may hold for the caller
LicensedResourceRows ==
    { LicensedResourceRow("a1", Some("t1"), "GuestManager", "ReadWrite", TRUE),
      LicensedResourceRow("a2", Some("t1"), "SubscriptionsManager", "Read", TRUE),
      LicensedResourceRow("a3", None, "GuestManager", "Write", FALSE),
      LicensedResourceRow("a1", Some("t2"), "SubscriptionsManager", "Write", TRUE) }

NilUuid == "00000000"

\* The LicensedResource built from a row (same lines in both adapters)
LicensedResourceFromRow(record) ==
    [acc_id |-> record.acc_id,
     tenant_id |-> IF record.tenant_id = None THEN NilUuid ELSE record.tenant_id[1],
     role |-> record.gr_slug,
     perm |-> Permission_from_i32(record.gr_perm),
     verified |-> record.gu_verified]

\* One term of the statement text and the separator written after it
SqlCond(role, permission) ==
    [kind |-> "cond", gr_slug |-> role, gr_perm |-> Permission_as_i64(permission)]
SqlOr == [kind |-> "or", gr_slug |-> "", gr_perm |-> 0]

\* permissioned_roles.iter().fold(String::new(), ..): "(gr_slug = 'r' AND gr_perm = n) OR "
\* appended for every (role, permission)
RECURSIVE PermissionedStatement(_)
PermissionedStatement(permissioned_roles) ==
    IF permissioned_roles = <<>> THEN <<>>
    ELSE <<SqlCond(permissioned_roles[1][1], permissioned_roles[1][2]), SqlOr>>
         \o PermissionedStatement(Tail(permissioned_roles))

\* statement.trim_end_matches(" OR ")
RECURSIVE trim_end_matches_OR(_)
trim_end_matches_OR(statement) ==
    IF statement # <<>> /\ statement[Len(statement)].kind = "or"
    THEN trim_end_matches_OR(SubSeq(statement, 1, Len(statement) - 1))
    ELSE statement

\* What the database makes of "AND (<statement>)": a disjunction of terms, or
\* a syntax error when the text between the parentheses is empty or ends in OR
SqlDisjunction(statement) ==
    LET wellFormed ==
            /\ Len(statement) % 2 = 1
            /\ \A i \in 1..Len(statement) :
                   statement[i].kind = IF i % 2 = 1 THEN "cond" ELSE "or"
    IN  [ok |-> wellFormed,
         conds |-> {statement[i] : i \in {j \in 1..Len(statement) :
                                             statement[j].kind = "cond"}}]

SqlMatches(record, conds) ==
    \E c \in conds : record.gr_slug = c.gr_slug /\ record.gr_perm = c.gr_perm

SeqRange(s) == {s[i] : i \in 1..Len(s)}

\* The clauses both adapters write for tenant, roles, related accounts and
\* verification, as conditions on a row
TenantClause(record, tenant, with_null) ==
    tenant # None =>
        \/ record.tenant_id = tenant
        \/ with_null /\ record.tenant_id = None

RolesClause(record, roles) ==
    roles # None => record.gr_slug \in SeqRange(roles[1])

RelatedAccountsClause(record, related_accounts) ==
    (related_accounts # None /\ related_accounts[1].kind = "AllowedAccounts")
        => record.acc_id \in related_accounts[1].ids

VerifiedClause(record, was_verified) ==
    was_verified # None => record.gu_verified = was_verified[1]

LicFound(records) ==
    IF records = {} THEN [kind |-> "NotFound", licenses |-> {}]
    ELSE [kind |-> "Found", licenses |-> {LicensedResourceFromRow(r) : r \in records}]

LicErr == [kind |-> "Err", licenses |-> {}]

\* prisma LicensedResourcesFetchingSqlDbRepository::list_licensed_resources
Prisma_list_licensed_resources(rows, c, db_ok) ==
    LET _role == IF c.roles # None /\ c.permissioned_roles # None THEN None
                 ELSE c.roles
        disj == IF c.permissioned_roles = None THEN [ok |-> TRUE, conds |-> {}]
                ELSE SqlDisjunction(trim_end_matches_OR(
                         PermissionedStatement(c.permissioned_roles[1])))
    IN  IF ~db_ok \/ ~disj.ok THEN LicErr
        ELSE LicFound({r \in rows :
                 /\ VerifiedClause(r, c.was_verified)
                 /\ TenantClause(r, c.tenant, TRUE)
                 /\ RelatedAccountsClause(r, c.related_accounts)
                 /\ RolesClause(r, _role)
                 /\ c.permissioned_roles # None => SqlMatches(r, disj.conds)})

\* diesel LicensedResourcesFetchingSqlDbRepository::list_licensed_resources.
\* The statement is written with format!: the email and the tenant id go into
\* the text without quotes, the roles clause has no operator before ANY, and
\* the permissioned statement keeps its trailing " OR ".
Diesel_list_licensed_resources(rows, c, db_ok) ==
    LET email_is_literal == FALSE
        tenant_is_literal == c.tenant = None
        roles_has_operator == c.roles = None
        disj == IF c.permissioned_roles = None THEN [ok |-> TRUE, conds |-> {}]
                ELSE SqlDisjunction(PermissionedStatement(c.permissioned_roles[1]))
        sql_ok == email_is_literal /\ tenant_is_literal /\ roles_has_operator /\ disj.ok
    IN  IF ~db_ok \/ ~sql_ok THEN LicErr
        ELSE LicFound({r \in rows :
                 /\ TenantClause(r, c.tenant, FALSE)
                 /\ RolesClause(r, c.roles)
                 /\ c.permissioned_roles # None => SqlMatches(r, disj.conds)
                 /\ VerifiedClause(r, c.was_verified)
                 /\ RelatedAccountsClause(r, c.related_accounts)})

\* The arguments of list_licensed_resources
PermissionedRolesInputs ==
    { None, Some(<<>>),
      Some(<<<<"GuestManager", "Read">>>>),
      Some(<<<<"GuestManager", "Write">>>>),
      Some(<<<<"SubscriptionsManager", "Write">>>>),
      Some(<<<<"GuestManager", "Write">>, <<"SubscriptionsManager", "Write">>>>) }

LicCalls ==
    [ tenant : {None, Some("t1")},
      roles : {None, Some(<<"GuestManager">>)},
      permissioned_roles : PermissionedRolesInputs,
      related_accounts : {None, Some([kind |-> "AllAccounts", ids |-> {}]),
                          Some([kind |-> "AllowedAccounts", ids |-> {"a1", "a3"}])},
      was_verified : {None, Some(TRUE)},
      db_ok : BOOLEAN ]

ListLicensedResources_Prisma(c) ==
    /\ lic_call' = Some([adapter |-> "prisma"] @@ c)
    /\ lic_result' = Some(Prisma_list_licensed_resources(lic_rows, c, c.db_ok))
    /\ UNCHANGED <<coreVars, secretVars, roleVars, apiVars, tailVars, lic_rows>>

ListLicensedResources_Diesel(c) ==
    /\ lic_call' = Some([adapter |-> "diesel"] @@ c)
    /\ lic_result' = Some(Diesel_list_licensed_resources(lic_rows, c, c.db_ok))
    /\ UNCHANGED <<coreVars, secretVars, roleVars, apiVars, tailVars, lic_rows>>

InitLicenses ==
    /\ lic_rows \in SUBSET LicensedResourceRows
    /\ lic_call = None
    /\ lic_result = None
    /\ config = Key(1)
    /\ webhook_table = <<>>
    /\ DispatchIdle
    /\ AuthIdle
    /\ RepoIdle
    /\ SecretIdle
    /\ RoleIdle
    /\ ApiIdle
    /\ TailIdle

NextLicenses ==
    \/ \E c \in LicCalls : ListLicensedResources_Prisma(c)
    \/ \E c \in LicCalls : ListLicensedResources_Diesel(c)

SpecLicenses == InitLicenses /\ [][NextLicenses]_vars

(***************************************************************************)
(* Properties of the licensed-resources filter                             *)
(***************************************************************************)

\* The rows of the view that the clauses other than the (role, permission)
\* filter let through
PassesOtherClauses(r, c) ==
    /\ VerifiedClause(r, c.was_verified)
    /\ TenantClause(r, c.tenant, c.adapter = "prisma")
    /\ RelatedAccountsClause(r, c.related_accounts)

Granted(r) ==
    lic_result[1].kind = "Found" /\ LicensedResourceFromRow(r) \in lic_result[1].licenses

\* C11: with the database reachable, a (role, permission) filter lets a
\* ReadWrite grant on a required role through whether Read or Write is
\* required, and keeps out a Read grant when only Write is required on its role.
C11_PermissionMatchingMonotonic ==
    (/\ lic_call # None
     /\ lic_call[1].db_ok
     /\ lic_call[1].permissioned_roles # None)
    => LET c == lic_call[1]
           required == SeqRange(c.permissioned_roles[1])
       IN  \A r \in lic_rows :
              /\ (/\ PassesOtherClauses(r, c)
                  /\ r.gr_perm = Permission_as_i64("ReadWrite")
                  /\ \E q \in required : q[1] = r.gr_slug)
                 => Granted(r)
              /\ (/\ r.gr_perm = Permission_as_i64("Read")
                  /\ \A q \in required : q[1] = r.gr_slug => q[2] = "Write")
                 => ~Granted(r)

(***************************************************************************)
(* Secret codec: encrypt_me, the token at rest, decrypt_me                 *)
(***************************************************************************)

MaxTokenLen == 2

\* The tokens a secret may carry
Tokens == SeqsUpTo(Char, MaxTokenLen)

\* The secrets handed to encrypt_me, of both variants
SecretInputs ==
    {WithToken(HeaderSecret, t) : t \in Tokens} \cup {WithToken(QuerySecret, t) : t \in Tokens}

\* A key of the wrong length for AES_256_GCM
ShortKey == [len |-> 16, k |-> 1]

\* What SystemRandom::fill may draw for the nonce
Nonces == {ZeroNonce, OtherNonce}

\* Tokens at rest that encrypt_me did not produce: not base64, base64 of fewer
\* bytes than the nonce, a nonce followed by bytes with a wrong tag, and the
\* sealing of bytes that are not UTF-8
MalformedTokens ==
    { REDACTED,
      <<"0", "1">>,
      <<>>,
      b64_encode(<<1, 2>>),
      b64_encode([i \in 1..(NonceLen - 1) |-> 0]),
      b64_encode(ZeroNonce),
      b64_encode(ZeroNonce \o <<3, 3>>),
      b64_encode(ZeroNonce \o seal_in_place_append_tag(Key(1), ZeroNonce, <<5>>)),
      b64_encode(OtherNonce \o seal_in_place_append_tag(Key(1), OtherNonce, <<2, 7>>)) }

\* encrypt_me as the registration of a webhook secret runs it
Secret_Encrypt(secret, key, nonce_bytes) ==
    /\ sec_origin = "none"
    /\ LET encrypted == encrypt_me(secret, key, nonce_bytes)
       IN  /\ sec_input' = Some(secret)
           /\ sec_key' = Some(key)
           /\ IF encrypted.ok
              THEN sec_stored' = Some(encrypted.val) /\ sec_origin' = "encrypted"
              ELSE sec_stored' = None /\ sec_origin' = "failed"
    /\ UNCHANGED <<coreVars, licVars, roleVars, apiVars, tailVars, sec_decrypt_key, sec_decrypted>>

\* One character of the token at rest is replaced by another
Secret_Alter(i, ch) ==
    /\ sec_origin = "encrypted"
    /\ sec_decrypted = None
    /\ i \in 1..Len(sec_stored[1].token)
    /\ ch # sec_stored[1].token[i]
    /\ sec_stored' = Some(WithToken(sec_stored[1],
                                    [sec_stored[1].token EXCEPT ![i] = ch]))
    /\ sec_origin' = "altered"
    /\ UNCHANGED <<coreVars, licVars, roleVars, apiVars, tailVars, sec_input, sec_key, sec_decrypt_key, sec_decrypted>>

\* A token that did not come from encrypt_me is found at rest
Secret_StoreMalformed(secret, token) ==
    /\ sec_origin = "none"
    /\ sec_stored' = Some(WithToken(secret, token))
    /\ sec_origin' = "malformed"
    /\ UNCHANGED <<coreVars, licVars, roleVars, apiVars, tailVars, sec_input, sec_key, sec_decrypt_key, sec_decrypted>>

\* decrypt_me on the secret at rest
Secret_Decrypt(key) ==
    /\ sec_origin \in {"encrypted", "altered", "malformed"}
    /\ sec_decrypted = None
    /\ sec_decrypt_key' = Some(key)
    /\ sec_decrypted' = Some(decrypt_me(sec_stored[1], key))
    /\ UNCHANGED <<coreVars, licVars, roleVars, apiVars, tailVars, sec_input, sec_key, sec_stored, sec_origin>>

InitSecret ==
    /\ SecretIdle
    /\ LicIdle
    /\ RoleIdle
    /\ ApiIdle
    /\ TailIdle
    /\ config = Key(1)
    /\ webhook_table = <<>>
    /\ DispatchIdle
    /\ AuthIdle
    /\ RepoIdle

NextSecret ==
    \/ \E secret \in SecretInputs, key \in {Key(1), Key(2), ShortKey}, nonce_bytes \in Nonces :
           Secret_Encrypt(secret, key, nonce_bytes)
    \/ \E i \in 1..(3 * (NonceLen + MaxTokenLen + TagLen)), ch \in {"0", "1", "a"} :
           Secret_Alter(i, ch)
    \/ \E secret \in {HeaderSecret, QuerySecret}, token \in MalformedTokens :
           Secret_StoreMalformed(secret, token)
    \/ \E key \in {Key(1), Key(2), ShortKey} : Secret_Decrypt(key)

SpecSecret == InitSecret /\ [][NextSecret]_vars

(***************************************************************************)
(* Properties of the secret codec                                          *)
(***************************************************************************)

\* C12: decrypt_me answers every malformed token at rest with an error
\* value: it neither panics nor returns a secret.
C12_MalformedTokenIsAnError ==
    (sec_origin = "malformed" /\ sec_decrypted # None)
        => sec_decrypted[1].kind = "Err"

\* C13: a secret encrypted with a valid key and decrypted with the same key
\* comes back with the token, and the other fields, it had before encryption.
C13_RoundTrip ==
    (/\ sec_origin = "encrypted"
     /\ sec_decrypted # None
     /\ sec_decrypt_key = sec_key)
    => /\ sec_decrypted[1].kind = "Ok"
       /\ sec_decrypted[1].val.token = sec_input[1].token
       /\ sec_decrypted[1].val = sec_input[1]

\* C14: decrypting a token of which one character was altered, or decrypting
\* with another key than the one that encrypted it, returns an error.
C14_TamperedOrWrongKeyIsAnError ==
    (/\ sec_decrypted # None
     /\ \/ sec_origin = "altered"
        \/ sec_origin = "encrypted" /\ sec_decrypt_key # sec_key)
    => sec_decrypted[1].kind = "Err"

\* C14 witness: an altered token that is still base64 was decrypted with the
\* key that encrypted it, and the answer is an error.
C14_Witness ==
    /\ sec_origin = "altered"
    /\ sec_decrypted # None
    /\ sec_decrypt_key = sec_key
    /\ b64_decode(sec_stored[1].token).ok
    /\ sec_decrypted[1].kind = "Err"

\* C21: encrypt_me and decrypt_me change only the token: the variant, the
\* name and the prefix of the secret encrypt_me returns are those of its
\* input, and those of the secret decrypt_me returns are those of the secret
\* at rest.
C21_OnlyTokenChanges ==
    /\ sec_origin = "encrypted" =>
           /\ sec_stored[1].kind = sec_input[1].kind
           /\ sec_stored[1].name = sec_input[1].name
           /\ sec_stored[1].prefix = sec_input[1].prefix
    /\ (sec_decrypted # None /\ sec_decrypted[1].kind = "Ok") =>
           /\ sec_decrypted[1].val.kind = sec_stored[1].kind
           /\ sec_decrypted[1].val.name = sec_stored[1].name
           /\ sec_decrypted[1].val.prefix = sec_stored[1].prefix

\* C21 witness: an AuthorizationHeader secret with a prefix was encrypted,
\* its token at rest differs from the one given, and decrypt_me returned a
\* secret whose token differs from the one at rest.
C21_Witness ==
    /\ sec_origin = "encrypted"
    /\ sec_input[1].kind = "AuthorizationHeader"
    /\ sec_input[1].prefix # None
    /\ sec_stored[1].token # sec_input[1].token
    /\ sec_decrypted # None
    /\ sec_decrypted[1].kind = "Ok"
    /\ sec_decrypted[1].val.token # sec_stored[1].token

(***************************************************************************)
(* dispatch_webhooks called on its own, with any trigger                   *)
(***************************************************************************)

\* The records the webhook table may hold when `trig` is dispatched: hooks of
\* that trigger without and with a secret, and a hook of another trigger
HooksFor(trig) ==
    { StoredHook(UrlA, trig, TRUE, None),
      StoredHook(UrlB, trig, TRUE, Some(SealedQuerySecret)),
      StoredHook(UrlB, trig, FALSE, None),
      StoredHook(UrlA,
                 IF trig = "UpdateUserAccount" THEN "DeleteUserAccount"
                 ELSE "UpdateUserAccount",
                 TRUE, None) }

\* dispatch_webhooks, lines 21-36: the call and its arguments
InitDispatch ==
    /\ config = Key(1)
    /\ trigger \in WebHookTrigger
    /\ webhook_table \in {WithIds(t) : t \in SeqsUpTo(HooksFor(trigger), MaxHooks)}
    /\ pc = "dispatch"
    /\ args = NoArgs
    /\ fetched_kind = "None"
    /\ payload = Some([name |-> "acc", tenant_id |-> "t1", is_checked |-> TRUE])
    /\ account_table = {}
    /\ hooks = <<>>
    /\ bodies = <<>>
    /\ cursor = 1
    /\ responses = <<>>
    /\ sent = {}
    /\ webhook_response = NoResponse
    /\ result = NoResult
    /\ AuthIdle
    /\ RepoIdle
    /\ ExtIdle

NextDispatch ==
    \/ \E fetched \in FetchOutcomes : FetchHooks(fetched)
    \/ \E i \in 1..MaxHooks : PollBody(i)
    \/ JoinAll
    \/ \E i \in 1..MaxHooks : SendRequest(i)
    \/ \E i \in 1..MaxHooks, outcome \in HttpOutcomes \cup EchoedTokens :
           ReceiveResponse(i, outcome)
    \/ ReturnResponse

SpecDispatch == InitDispatch /\ [][NextDispatch]_vars

(***************************************************************************)
(* Properties of the recorded entries and of the request method            *)
(***************************************************************************)

TransportFailed(i) ==
    i \in DOMAIN bodies /\ bodies[i].state = "done" /\ bodies[i].outcome[1].kind = "Err"

\* C15 as stated: the entry recorded for a request that failed at transport
\* level is {url: "", status: 500, body: "error on connect"}.
C15_TransportFailureEntry ==
    \A i \in DOMAIN bodies :
        TransportFailed(i) =>
            /\ i <= Len(responses)
            /\ responses[i] = [url |-> <<>>, status |-> 500,
                               body |-> Some(<<"error on connect">>)]

\* C15 amended: the entry recorded for a request that failed at transport
\* level has url "", status 500 and the body "Error on connect to webhook".
C15_TransportFailureEntryText ==
    \A i \in DOMAIN bodies :
        TransportFailed(i) =>
            /\ i <= Len(responses)
            /\ responses[i] = [url |-> <<>>, status |-> 500,
                               body |-> Some(<<"Error on connect to webhook">>)]

\* C15 witness: the call returned after the request to its second hook failed
\* at transport level and the first was answered.
C15_Witness ==
    /\ pc = "returned"
    /\ Len(hooks) >= 2
    /\ TransportFailed(2)
    /\ bodies[1].outcome[1].kind = "Ok"
    /\ result.response.propagations[1][2].status = 500

\* The query token the dispatcher sent to hook i, if it sent one
SentQueryToken(i) ==
    IF i \in DOMAIN bodies /\ bodies[i].request # None
       /\ bodies[i].request[1].query # <<>>
    THEN Some(bodies[i].request[1].query[1][2])
    ELSE None

C17_MethodIsFunctionOfTrigger ==
    /\ trigger \in WebHookTrigger
    /\ \A i \in DOMAIN bodies :
          bodies[i].request # None =>
              LET m == bodies[i].request[1].method
              IN  /\ m \in {"POST", "PUT", "DELETE"}
                  /\ trigger \in {"CreateSubscriptionAccount", "CreateUserAccount"}
                        => m = "POST"
                  /\ trigger \in {"UpdateSubscriptionAccount", "UpdateUserAccount"}
                        => m = "PUT"
                  /\ trigger \in {"DeleteSubscriptionAccount", "DeleteUserAccount"}
                        => m = "DELETE"
                  /\ trigger = "InviteGuestAccount" => m = "POST"
                  /\ trigger = "UninviteGuestAccount" => m = "DELETE"
                  /\ \A j \in DOMAIN bodies :
                        bodies[j].request # None => bodies[j].request[1].method = m
    /\ \A r \in sent : \A q \in sent : r.request.method = q.request.method

\* C17 witness: a DeleteUserAccount dispatch sent DELETE requests to two hooks.
C17_Witness ==
    /\ trigger = "DeleteUserAccount"
    /\ pc = "dispatched"
    /\ Cardinality(sent) = 2
    /\ \A r \in sent : r.request.method = "DELETE"

(***************************************************************************)
(* GuestRole registration (diesel): get_or_create                          *)
(***************************************************************************)

MaxCallers == 2

Callers == 1..MaxCallers

\* The GuestRole values handed to get_or_create
GuestRoleInputs ==
    [ name : {"n1", "n2"}, slug : {"s1", "s2"}, description : {None, Some("d")},
      permission : {"Read", "Write"} ]

\* Permission::to_i32
Permission_to_i32(perm) == Permission_as_i64(perm)

\* map_model_to_dto
map_model_to_dto(record) ==
    [id |-> Some(record.id), name |-> record.name, slug |-> record.slug,
     description |-> record.description,
     permission |-> Permission_from_i32(record.permission)]

\* Variant of FindByName: the filter compares the slug
FindByName_BySlug(table, guest_role) ==
    {r \in table : r.slug = guest_role.slug}

\* guest_role_model::table.filter(name.eq(&guest_role.name))
FindByName(table, guest_role) ==
    {r \in table : r.name = guest_role.name}

NoRoleCall ==
    [pc |-> "idle", guest_role |-> None, existing |-> None, db_failed |-> FALSE,
     seen |-> {}, result |-> [kind |-> "Pending", record |-> None, reason |-> ""]]

\* The roles that calls for `name` have already returned as Created
ReturnedCreated(name) ==
    {role_calls[c].result.record[1] : c \in
        {d \in Callers : /\ role_calls[d].pc = "done"
                         /\ role_calls[d].result.kind = "Created"
                         /\ role_calls[d].guest_role[1].name = name}}

RoleErr == [kind |-> "Err", record |-> None, reason |-> "creation_err"]

\* get_or_create, lines 33-53: the connection, the lookup by name and the
\* return of an existing role
GuestRole_Lookup(c, guest_role, db_ok) ==
    /\ role_calls[c].pc = "idle"
    /\ LET found == FindByName(role_table, guest_role)
           call == [role_calls[c] EXCEPT !.guest_role = Some(guest_role),
                                         !.seen = ReturnedCreated(guest_role.name)]
       IN  IF ~db_ok
           THEN role_calls' = [role_calls EXCEPT ![c] =
                    [call EXCEPT !.pc = "done", !.db_failed = TRUE, !.result = RoleErr]]
           ELSE IF found # {}
           THEN \E record \in found :
                   role_calls' = [role_calls EXCEPT ![c] =
                       [call EXCEPT !.pc = "done", !.existing = Some(record),
                                    !.result = [kind |-> "NotCreated",
                                                record |-> Some(map_model_to_dto(record)),
                                                reason |-> "Role already exists"]]]
           ELSE role_calls' = [role_calls EXCEPT ![c] = [call EXCEPT !.pc = "insert"]]
    /\ UNCHANGED <<coreVars, licVars, secretVars, apiVars, tailVars, role_table>>

\* get_or_create, lines 55-71: the insert; the table admits one role per name
GuestRole_Insert(c, db_ok) ==
    /\ role_calls[c].pc = "insert"
    /\ LET guest_role == role_calls[c].guest_role[1]
           new_role == [id |-> c, name |-> guest_role.name, slug |-> guest_role.slug,
                        description |-> guest_role.description,
                        permission |-> Permission_to_i32(guest_role.permission)]
           unique_violation == \E r \in role_table : r.name = new_role.name
       IN  IF ~db_ok \/ unique_violation
           THEN /\ role_calls' = [role_calls EXCEPT ![c].pc = "done",
                                                     ![c].db_failed = ~db_ok,
                                                     ![c].result = RoleErr]
                /\ UNCHANGED role_table
           ELSE /\ role_table' = role_table \cup {new_role}
                /\ role_calls' = [role_calls EXCEPT
                      ![c].pc = "done",
                      ![c].result = [kind |-> "Created",
                                     record |-> Some(map_model_to_dto(new_role)),
                                     reason |-> ""]]
    /\ UNCHANGED <<coreVars, licVars, secretVars, apiVars, tailVars>>

InitGuestRoles ==
    /\ role_table = {}
    /\ role_calls = [c \in Callers |-> NoRoleCall]
    /\ config = Key(1)
    /\ webhook_table = <<>>
    /\ DispatchIdle
    /\ AuthIdle
    /\ RepoIdle
    /\ LicIdle
    /\ SecretIdle
    /\ ApiIdle
    /\ TailIdle

NextGuestRoles ==
    \/ \E c \in Callers, guest_role \in GuestRoleInputs, db_ok \in BOOLEAN :
           GuestRole_Lookup(c, guest_role, db_ok)
    \/ \E c \in Callers, db_ok \in BOOLEAN : GuestRole_Insert(c, db_ok)

SpecGuestRoles == InitGuestRoles /\ [][NextGuestRoles]_vars

(***************************************************************************)
(* Properties of GuestRole get_or_create                                   *)
(***************************************************************************)

InsertedBy(c) == {r \in role_table : r.id = c}

\* C18: a call that finds a role of its name inserts nothing and returns
\* NotCreated with that stored role and the reason "Role already exists"; a
\* call that finds none inserts exactly one role, built from its argument, and
\* returns Created; and a call made after another call returned Created for
\* the same name returns NotCreated carrying the role that call created.
C18_GetOrCreateByName ==
    \A c \in DOMAIN role_calls :
        LET call == role_calls[c]
            res == call.result
        IN  call.pc = "done" =>
              /\ res.kind = "NotCreated" =>
                    /\ call.existing # None
                    /\ res.record = Some(map_model_to_dto(call.existing[1]))
                    /\ call.existing[1] \in role_table
                    /\ res.record[1].name = call.guest_role[1].name
                    /\ res.reason = "Role already exists"
                    /\ InsertedBy(c) = {}
              /\ res.kind = "Created" =>
                    /\ call.existing = None
                    /\ Cardinality(InsertedBy(c)) = 1
                    /\ res.record \in {Some(map_model_to_dto(r)) : r \in InsertedBy(c)}
                    /\ res.record[1].name = call.guest_role[1].name
                    /\ res.record[1].slug = call.guest_role[1].slug
                    /\ res.record[1].permission = call.guest_role[1].permission
              /\ res.kind = "Err" =>
                    /\ InsertedBy(c) = {}
                    /\ \/ call.db_failed
                       \/ \E r \in role_table : r.name = call.guest_role[1].name
              /\ (call.seen # {} /\ ~call.db_failed) =>
                    /\ res.kind = "NotCreated"
                    /\ res.record[1] \in call.seen

\* C18 witness: the first caller created role n1; the second, called later
\* with the same name and another slug, got NotCreated with the first's role.
C18_Witness ==
    /\ role_calls # <<>>
    /\ role_calls[1].pc = "done"
    /\ role_calls[1].result.kind = "Created"
    /\ role_calls[2].pc = "done"
    /\ role_calls[2].seen # {}
    /\ role_calls[2].result.kind = "NotCreated"
    /\ role_calls[2].result.record = role_calls[1].result.record
    /\ role_calls[2].guest_role[1].slug # role_calls[1].guest_role[1].slug
    /\ Cardinality(role_table) = 1

(***************************************************************************)
(* register_error_code, and the endpoints over the profile-gated use cases *)
(***************************************************************************)

\* The callers of the endpoints: the profiles above and two licensed ones
ApiProfiles ==
    Profiles \cup
    { [BaseProfile EXCEPT !.licensed_resources =
          {LicensedResource("a1", "t1", "SubscriptionAccountManager", "Write")}],
      [BaseProfile EXCEPT !.licensed_resources =
          {LicensedResource("a2", "t1", "GuestManager", "Write")}] }

NoApiArgs ==
    [prefix |-> "", message |-> "", details |-> None, is_internal |-> FALSE,
     role_id |-> None, error_code |-> None, fetched |-> "none"]

\* Variant of ErrorCode_new: every prefix is accepted
ErrorCode_new_Unvalidated(prefix, error_number, message, is_internal) ==
    [ok |-> TRUE,
     val |-> Some([prefix |-> prefix, error_number |-> error_number,
                   message |-> message, details |-> None,
                   is_internal |-> is_internal])]

\* ErrorCode::new_internal_error / new_external_error: the prefix is validated
ErrorCode_new(prefix, error_number, message, is_internal) ==
    IF prefix = "" THEN [ok |-> FALSE, val |-> None]
    ELSE [ok |-> TRUE,
          val |-> Some([prefix |-> prefix, error_number |-> error_number,
                        message |-> message, details |-> None,
                        is_internal |-> is_internal])]

\* Profile::get_create_ids_or_error / get_default_write_ids_or_error: the
\* accounts on which the profile holds one of the roles with write permission
get_write_ids_or_error(profile, roles) ==
    LET ids == {l.acc_id : l \in {lr \in profile.licensed_resources :
                                     /\ lr.role \in roles
                                     /\ PermissionRank(lr.perm) >= PermissionRank("Write")}}
    IN  [ok |-> ids # {}, val |-> ids]

\* The errors a permission check returns
AuthorizationFailures ==
    {"insufficient_privileges", "insufficient_scoped_permissions", "not_tenant_owner"}

\* register_error_code, lines 26-32
RegisterErrorCode_Check(profile, prefix, message, details, is_internal) ==
    /\ uc_pc = "idle"
    /\ uc' = Call("register_error_code", profile)
    /\ api_args' = Some([NoApiArgs EXCEPT !.prefix = prefix, !.message = message,
                                          !.details = details,
                                          !.is_internal = is_internal])
    /\ uc_invoked' = {}
    /\ IF ~profile.is_manager
       THEN /\ uc_locals' = [NoLocals EXCEPT !.check = "err"]
            /\ uc_pc' = "returned"
            /\ uc_result' = UcErr("insufficient_privileges")
       ELSE /\ uc_locals' = [NoLocals EXCEPT !.check = "ok"]
            /\ uc_pc' = "build_error_code"
            /\ uc_result' = NoUcResult
    /\ UNCHANGED <<accounts, tenants, dispatchVars, repoVars, config, webhook_table,
                   licVars, secretVars, roleVars, tailVars, api_http, error_codes>>

\* register_error_code, lines 38-45
RegisterErrorCode_Build ==
    /\ uc_pc = "build_error_code"
    /\ LET a == api_args[1]
           built == ErrorCode_new(a.prefix, 0, a.message, a.is_internal)
       IN  IF ~built.ok
           THEN /\ uc_pc' = "returned"
                /\ uc_result' = UcErr("invalid_error_code")
                /\ UNCHANGED api_args
           ELSE /\ api_args' = Some([a EXCEPT !.error_code =
                       IF a.details = None THEN built.val
                       ELSE Some([built.val[1] EXCEPT !.details = a.details])])
                /\ uc_pc' = "create_error_code"
                /\ UNCHANGED uc_result
    /\ UNCHANGED <<accounts, tenants, uc, uc_locals, uc_invoked, dispatchVars, repoVars,
                   config, webhook_table, licVars, secretVars, roleVars, tailVars, api_http,
                   error_codes>>

\* register_error_code, lines 51-56
RegisterErrorCode_Create(outcome) ==
    /\ uc_pc = "create_error_code"
    /\ uc_invoked' = uc_invoked \cup {"error_code_registration.create"}
    /\ IF outcome = "Created"
       THEN /\ error_codes' = error_codes \cup {api_args[1].error_code[1]}
            /\ uc_result' = UcOk
       ELSE /\ uc_result' = UcErr(IF outcome = "NotCreated" THEN "not_created"
                                  ELSE "database")
            /\ UNCHANGED error_codes
    /\ uc_pc' = "returned"
    /\ UNCHANGED <<accounts, tenants, uc, uc_locals, dispatchVars, repoVars, config,
                   webhook_table, licVars, secretVars, roleVars, tailVars, api_args, api_http>>

\* get_account_details, lines 23-25
GetAccountDetails_Check(profile, account_id) ==
    /\ uc_pc = "idle"
    /\ uc' = [Call("get_account_details", profile) EXCEPT !.account_id = Some(account_id)]
    /\ api_args' = Some(NoApiArgs)
    /\ uc_invoked' = {}
    /\ IF get_write_ids_or_error(profile, {"SubscriptionAccountManager"}).ok
       THEN /\ uc_locals' = [NoLocals EXCEPT !.check = "ok"]
            /\ uc_pc' = "fetch_account"
            /\ uc_result' = NoUcResult
       ELSE /\ uc_locals' = [NoLocals EXCEPT !.check = "err"]
            /\ uc_pc' = "returned"
            /\ uc_result' = UcErr("insufficient_scoped_permissions")
    /\ UNCHANGED <<accounts, tenants, dispatchVars, repoVars, config, webhook_table,
                   licVars, secretVars, roleVars, tailVars, api_http, error_codes>>

\* get_account_details, line 31
GetAccountDetails_Fetch(outcome) ==
    /\ uc_pc = "fetch_account"
    /\ uc_invoked' = uc_invoked \cup {"account_fetching.get"}
    /\ LET res == AccountFetching_get(accounts, uc.account_id[1], outcome)
       IN  /\ uc_result' = IF res.kind = "Err" THEN UcErr("database") ELSE UcOk
           /\ uc_locals' = [uc_locals EXCEPT !.account = res.account]
           /\ api_args' = Some([api_args[1] EXCEPT !.fetched = res.kind])
    /\ uc_pc' = "returned"
    /\ UNCHANGED <<accounts, tenants, uc, dispatchVars, repoVars, config, webhook_table,
                   licVars, secretVars, roleVars, tailVars, api_http, error_codes>>

\* delete_guest_role: the permission check
DeleteGuestRole_Check(profile, role_id) ==
    /\ uc_pc = "idle"
    /\ uc' = Call("delete_guest_role", profile)
    /\ api_args' = Some([NoApiArgs EXCEPT !.role_id = Some(role_id)])
    /\ uc_invoked' = {}
    /\ IF get_write_ids_or_error(profile, {"GuestManager"}).ok
       THEN /\ uc_locals' = [NoLocals EXCEPT !.check = "ok"]
            /\ uc_pc' = "delete_role"
            /\ uc_result' = NoUcResult
       ELSE /\ uc_locals' = [NoLocals EXCEPT !.check = "err"]
            /\ uc_pc' = "returned"
            /\ uc_result' = UcErr("insufficient_scoped_permissions")
    /\ UNCHANGED <<accounts, tenants, dispatchVars, repoVars, config, webhook_table,
                   licVars, secretVars, roleVars, tailVars, api_http, error_codes>>

\* delete_guest_role: role_deletion_repo.delete(role_id)
DeleteGuestRole_Delete(outcome) ==
    /\ uc_pc = "delete_role"
    /\ uc_invoked' = uc_invoked \cup {"guest_role_deletion.delete"}
    /\ uc_result' = IF outcome = "Err" THEN UcErr("database") ELSE UcOk
    /\ api_args' = Some([api_args[1] EXCEPT !.fetched = outcome])
    /\ uc_pc' = "returned"
    /\ UNCHANGED <<accounts, tenants, uc, uc_locals, dispatchVars, repoVars, config,
                   webhook_table, licVars, secretVars, roleVars, tailVars, api_http, error_codes>>

\* handle_mapped_error: the status for an error returned by a use case
handle_mapped_error(err) ==
    IF err.reason \in AuthorizationFailures THEN 403 ELSE 500

\* get_account_details_url, lines 321-333
GetAccountDetailsUrl_Status(res, fetched) ==
    IF res.kind = "Err" THEN 500
    ELSE IF fetched = "NotFound" THEN 204 ELSE 200

\* delete_guest_role_url, lines 249-253; delete_response_kind answers 204 or 400
DeleteGuestRoleUrl_Status(res, outcome) ==
    IF res.kind = "Err" THEN 500
    ELSE IF outcome = "Deleted" THEN 204 ELSE 400

\* update_tenant_name_and_description_url, lines 117-120;
\* updating_response_kind answers 202
UpdateTenantUrl_Status(res) ==
    IF res.kind = "Err" THEN handle_mapped_error(res) ELSE 202

\* The endpoint turns what the use case returned into the HTTP response
Endpoint_Respond ==
    /\ uc_pc = "returned"
    /\ api_http = None
    /\ uc.name \in {"get_account_details", "delete_guest_role",
                    "update_tenant_name_and_description"}
    /\ api_http' = Some(
          CASE uc.name = "get_account_details" ->
                   GetAccountDetailsUrl_Status(uc_result, api_args[1].fetched)
            [] uc.name = "delete_guest_role" ->
                   DeleteGuestRoleUrl_Status(uc_result, api_args[1].fetched)
            [] uc.name = "update_tenant_name_and_description" ->
                   UpdateTenantUrl_Status(uc_result))
    /\ UNCHANGED <<coreVars, licVars, secretVars, roleVars, tailVars, api_args, error_codes>>

\* update_tenant_name_and_description as its endpoint calls it
UpdateTenantUrl_Call(profile, tenant_id, tenant_name, tenant_description) ==
    /\ api_args = None
    /\ UpdateTenant_Check(profile, tenant_id, tenant_name, tenant_description)

\* The call is over; the next request may come
Api_NextRequest ==
    /\ uc_pc = "returned"
    /\ uc.name = "register_error_code" \/ api_http # None
    /\ uc_pc' = "idle"
    /\ uc' = NoCall
    /\ uc_locals' = NoLocals
    /\ uc_invoked' = {}
    /\ uc_result' = NoUcResult
    /\ api_args' = None
    /\ api_http' = None
    /\ UNCHANGED <<accounts, tenants, dispatchVars, repoVars, config, webhook_table,
                   licVars, secretVars, roleVars, tailVars, error_codes>>

InitApi ==
    /\ accounts = [a \in AccountIds |->
                     [exists |-> a # "a3", is_archived |-> FALSE,
                      account_type |-> [kind |-> "Record", is_staff |-> FALSE]]]
    /\ tenants = [t \in Tenants |-> [name |-> "tenant", description |-> None]]
    /\ uc = NoCall
    /\ uc_pc = "idle"
    /\ uc_locals = NoLocals
    /\ uc_invoked = {}
    /\ uc_result = NoUcResult
    /\ api_args = None
    /\ api_http = None
    /\ error_codes = {}
    /\ DispatchIdle
    /\ RepoIdle
    /\ LicIdle
    /\ SecretIdle
    /\ RoleIdle
    /\ TailIdle
    /\ config = Key(1)
    /\ webhook_table = <<>>

NextApi ==
    \/ \E profile \in ApiProfiles, prefix \in {"", "TEST"},
          details \in {None, Some("details")}, is_internal \in BOOLEAN :
           RegisterErrorCode_Check(profile, prefix, "Test error.", details, is_internal)
    \/ RegisterErrorCode_Build
    \/ \E outcome \in {"Created", "NotCreated", "Err"} : RegisterErrorCode_Create(outcome)
    \/ \E profile \in ApiProfiles, account_id \in AccountIds :
           GetAccountDetails_Check(profile, account_id)
    \/ \E outcome \in {"Err", "Found"} : GetAccountDetails_Fetch(outcome)
    \/ \E profile \in ApiProfiles : DeleteGuestRole_Check(profile, "r1")
    \/ \E outcome \in {"Err", "Deleted", "NotDeleted"} : DeleteGuestRole_Delete(outcome)
    \/ \E profile \in ApiProfiles, tenant_id \in Tenants,
          tenant_name \in {None, Some("renamed")} :
           UpdateTenantUrl_Call(profile, tenant_id, tenant_name, None)
    \/ \E db_ok \in BOOLEAN : UpdateTenant_Update(db_ok)
    \/ Endpoint_Respond
    \/ Api_NextRequest

SpecApi == InitApi /\ [][NextApi]_vars

(***************************************************************************)
(* Properties of register_error_code and of the endpoints                  *)
(***************************************************************************)

\* C19: in register_error_code a profile with is_manager or is_staff passes
\* the privilege check; for any other profile the call returns an error and
\* the registration repository's create is not invoked.
C19_ManagerOrStaffRegisters ==
    (uc.name = "register_error_code" /\ uc_pc # "idle") =>
        LET profile == uc.profile[1]
        IN  /\ (profile.is_manager \/ profile.is_staff) =>
                  /\ uc_locals.check = "ok"
                  /\ uc_result.reason # "insufficient_privileges"
            /\ ~(profile.is_manager \/ profile.is_staff) =>
                  /\ uc_pc = "returned"
                  /\ uc_result.kind = "Err"
                  /\ "error_code_registration.create" \notin uc_invoked

\* C20: when a use case called by an endpoint returned an authorization
\* failure, the endpoint answers 401 or 403.
C20_AuthorizationFailureIsDenial ==
    (/\ api_http # None
     /\ uc_result.kind = "Err"
     /\ uc_result.reason \in AuthorizationFailures)
    => api_http[1] \in {401, 403}


\* C22: register_error_code called with the empty prefix returns an error
\* once the privilege check is passed, the repository's create is not invoked
\* for it and no error code is registered with that prefix.
C22_InvalidPrefixNeverRegistered ==
    /\ (/\ uc.name = "register_error_code"
        /\ api_args[1].prefix = ""
        /\ uc_locals.check = "ok")
       => /\ uc_pc \in {"build_error_code", "returned"}
          /\ "error_code_registration.create" \notin uc_invoked
          /\ uc_pc = "returned" => uc_result = UcErr("invalid_error_code")
    /\ \A code \in error_codes : code.prefix # ""

\* C22 witness: a manager called register_error_code with the empty prefix
\* and the call returned the validation error, after an earlier call had
\* registered a code.
C22_Witness ==
    /\ uc.name = "register_error_code"
    /\ uc.profile[1].is_manager
    /\ api_args[1].prefix = ""
    /\ uc_pc = "returned"
    /\ uc_result = UcErr("invalid_error_code")
    /\ error_codes # {}


(***************************************************************************)
(* The notifier: consume_messages over the Redis queues                    *)
(***************************************************************************)

MaxQueue == 4

\* let max_retries = 3
max_retries == 3

\* Value::Nil, the reply of a pop from an empty list
Nil == [id |-> 0, body |-> "nil"]

\* The queued strings: the JSON of a QueueMessage, or a string that is not one.
\* The id tells apart the elements of the list
QueueMessages ==
    [id : 1..MaxQueue, body : {"mail", "junk"}]

\* The lists the main queue may hold when consume_messages starts
InitialQueues ==
    UNION { { q \in [1..n -> QueueMessages] : \A i \in 1..n : q[i].id = i } :
            n \in 0..MaxQueue }

\* Variant of RPOPLPUSH: the element is copied, the source keeps it
RPOPLPUSH_SourceKept(source, destination) ==
    IF source = <<>> THEN [value |-> Nil, source |-> source, destination |-> destination]
    ELSE [value |-> source[Len(source)],
          source |-> source,
          destination |-> <<source[Len(source)]>> \o destination]

\* redis RPOPLPUSH source destination: the last element of source is removed
\* and pushed in front of destination, in one step; Nil when source is empty
RPOPLPUSH(source, destination) ==
    IF source = <<>> THEN [value |-> Nil, source |-> source, destination |-> destination]
    ELSE [value |-> source[Len(source)],
          source |-> SubSeq(source, 1, Len(source) - 1),
          destination |-> <<source[Len(source)]>> \o destination]

\* redis LREM as lines 129-132 send it: the key and the element, without the
\* count the command requires, which the server answers with an error
LREM_key_element(list, element) == [ok |-> FALSE, list |-> list]

\* process_record; send_outcome is what message_sending_repo.send answers
process_record(record, send_outcome) ==
    IF record = Nil THEN [kind |-> "Ok", message |-> None, sent |-> FALSE]
    ELSE IF record.body # "mail" THEN [kind |-> "Err", message |-> None, sent |-> FALSE]
    ELSE IF send_outcome = "Created"
    THEN [kind |-> "Ok", message |-> Some(record), sent |-> TRUE]
    ELSE [kind |-> "Err", message |-> None, sent |-> TRUE]

\* What consume_messages returned; `by` tells which exit of the loop was taken
QueueOk(n, by) == Some([kind |-> "Ok", n |-> n, by |-> by])
QueueErr == Some([kind |-> "Err", n |-> 0, by |-> "error"])

\* main, lines 335-370, and consume_messages, lines 19-34: the interval
\* ticked, the connection is made and the locals are set
Consume_Connect(connected) ==
    /\ \/ q_pc = "idle"
       \/ q_pc = "returned" /\ q_result[1].kind = "Ok"
    /\ q_retries' = 0
    /\ q_processed' = 0
    /\ q_value' = None
    /\ q_run' = <<>>
    /\ IF connected
       THEN q_pc' = "loop" /\ q_result' = None
       ELSE q_pc' = "returned" /\ q_result' = QueueErr
    /\ UNCHANGED <<coreVars, licVars, secretVars, roleVars, apiVars, guestVars,
                   q_main, q_processing, q_error, q_sent>>

\* consume_messages, lines 39-73
Consume_Pop(reply) ==
    /\ q_pc = "loop"
    /\ IF q_retries >= max_retries
       THEN /\ q_pc' = "returned"
            /\ q_result' = QueueOk(q_processed, "max_retries")
            /\ UNCHANGED <<q_main, q_processing, q_value>>
       ELSE IF reply = "ok"
       THEN LET res == RPOPLPUSH(q_main, q_processing)
            IN  /\ q_value' = Some(res.value)
                /\ q_main' = res.source
                /\ q_processing' = res.destination
                /\ q_pc' = "process"
                /\ UNCHANGED q_result
       ELSE /\ q_pc' = "returned"
            /\ q_result' = IF reply \in {"cluster_error", "io_error"} THEN QueueErr
                           ELSE QueueOk(q_processed, "redis_error")
            /\ UNCHANGED <<q_main, q_processing, q_value>>
    /\ UNCHANGED <<coreVars, licVars, secretVars, roleVars, apiVars, guestVars,
                   q_error, q_retries, q_processed, q_sent, q_run>>

\* consume_messages, lines 78-127 and 141-146
Consume_Process(send_outcome) ==
    /\ q_pc = "process"
    /\ LET res == process_record(q_value[1], send_outcome)
       IN  /\ q_sent' = IF res.sent THEN Append(q_sent, q_value[1]) ELSE q_sent
           /\ IF res.kind = "Err"
              THEN /\ q_pc' = "move_to_error"
                   /\ q_run' = Append(q_run, [message |-> q_value[1], outcome |-> "failed",
                                              moved |-> None])
                   /\ UNCHANGED <<q_processed, q_result>>
              ELSE IF res.message # None
              THEN /\ q_processed' = q_processed + 1
                   /\ q_pc' = "cleanup"
                   /\ q_run' = Append(q_run, [message |-> q_value[1], outcome |-> "sent",
                                              moved |-> None])
                   /\ UNCHANGED q_result
              ELSE /\ q_pc' = "returned"
                   /\ q_result' = QueueOk(q_processed, "nil")
                   /\ UNCHANGED <<q_processed, q_run>>
    /\ UNCHANGED <<coreVars, licVars, secretVars, roleVars, apiVars, guestVars,
                   q_main, q_processing, q_error, q_retries, q_value>>

\* consume_messages, lines 84-118
Consume_MoveToError(reply) ==
    /\ q_pc = "move_to_error"
    /\ IF reply = "ok"
       THEN LET res == RPOPLPUSH(q_processing, q_error)
            IN  /\ q_processing' = res.source
                /\ q_error' = res.destination
                /\ q_run' = [q_run EXCEPT ![Len(q_run)].moved = Some(res.value)]
       ELSE UNCHANGED <<q_processing, q_error, q_run>>
    /\ q_retries' = q_retries + 1
    /\ q_pc' = "loop"
    /\ UNCHANGED <<coreVars, licVars, secretVars, roleVars, apiVars, guestVars,
                   q_main, q_processed, q_value, q_result, q_sent>>

\* consume_messages, lines 129-140
Consume_Cleanup ==
    /\ q_pc = "cleanup"
    /\ LET res == LREM_key_element(q_processing, q_value[1])
       IN  q_processing' = IF res.ok THEN res.list ELSE q_processing
    /\ q_pc' = "loop"
    /\ UNCHANGED <<coreVars, licVars, secretVars, roleVars, apiVars, guestVars,
                   q_main, q_error, q_retries, q_processed, q_value, q_result, q_sent,
                   q_run>>

InitNotifier ==
    /\ q_main \in InitialQueues
    /\ q_processing = <<>>
    /\ q_error = <<>>
    /\ q_pc = "idle"
    /\ q_retries = 0
    /\ q_processed = 0
    /\ q_value = None
    /\ q_result = None
    /\ q_sent = <<>>
    /\ q_run = <<>>
    /\ GuestIdle
    /\ LicIdle
    /\ SecretIdle
    /\ RoleIdle
    /\ ApiIdle
    /\ DispatchIdle
    /\ AuthIdle
    /\ RepoIdle
    /\ config = Key(1)
    /\ webhook_table = <<>>

NextNotifier ==
    \/ \E connected \in BOOLEAN : Consume_Connect(connected)
    \/ \E reply \in {"ok", "cluster_error", "io_error", "response_error"} :
           Consume_Pop(reply)
    \/ \E send_outcome \in {"Created", "NotCreated", "Err"} : Consume_Process(send_outcome)
    \/ \E reply \in {"ok", "response_error"} : Consume_MoveToError(reply)
    \/ Consume_Cleanup

SpecNotifier == InitNotifier /\ [][NextNotifier]_vars

(***************************************************************************)
(* Properties of consume_messages                                          *)
(***************************************************************************)

\* C23: a message is out of the main queue and in front of the processing
\* queue before process_record handles it, and over all runs of
\* consume_messages no message is handed to the message sender twice.
C23_EachMessageSentOnce ==
    /\ \A i, j \in 1..Len(q_sent) : q_sent[i] = q_sent[j] => i = j
    /\ \A i \in 1..Len(q_sent) : q_sent[i] \notin SeqRange(q_main)
    /\ (q_pc = "process" /\ q_value[1] # Nil) =>
           /\ q_value[1] \notin SeqRange(q_main)
           /\ q_processing # <<>>
           /\ Head(q_processing) = q_value[1]

\* C23 witness: a second run of consume_messages has handed a message to the
\* sender after the first run had handed it another one.
C23_Witness ==
    /\ Len(q_sent) >= 2
    /\ Len(q_run) = 1
    /\ q_run[1].message = q_sent[Len(q_sent)]
    /\ q_pc = "returned"

\* C24: when the processing of a message failed and the move to the error
\* queue was made, the message moved is the one that failed; and when a run
\* has returned, the processing queue holds no message that was sent or that
\* failed and was moved in it.
C24_FailedToErrorSentRemoved ==
    /\ \A i \in 1..Len(q_run) :
           (q_run[i].outcome = "failed" /\ q_run[i].moved # None)
               => q_run[i].moved = Some(q_run[i].message)
    /\ (q_pc = "returned" /\ q_result[1].kind = "Ok") =>
           \A i \in 1..Len(q_run) :
               (q_run[i].outcome = "sent" \/ q_run[i].moved # None)
                   => q_run[i].message \notin SeqRange(q_processing)

\* C25: when consume_messages returns Ok(n) and Redis answered every command
\* of the run, its last pop returned Nil, the main queue is empty, and n is
\* the number of messages sent in the run.
C25_OkMeansDrained ==
    (q_pc = "returned" /\ q_result[1].kind = "Ok" /\ q_result[1].by # "redis_error") =>
        /\ q_value = Some(Nil)
        /\ q_main = <<>>
        /\ q_result[1].n = Cardinality({i \in 1..Len(q_run) : q_run[i].outcome = "sent"})


(***************************************************************************)
(* The account-creation use cases: check, register, dispatch               *)
(***************************************************************************)

\* What user_fetching_repo.get_user_by_email may answer
UserFetchOutcomes ==
    { [kind |-> "Err", user |-> None], [kind |-> "NotFound", user |-> None] }
    \cup { [kind |-> "Found", user |-> Some([provider |-> p, is_active |-> a])] :
             p \in {"Internal", "External", "None"}, a \in BOOLEAN }

\* create_default_account, lines 48-52: an inactive user of the internal
\* provider is rejected
UserAllowed(user) == ~(user.provider = "Internal" /\ ~user.is_active)

\* create_default_account, lines 41-52: the user lookup and the activity check
FetchUser(email, account_name, fetched) ==
    /\ pc = "start"
    /\ args' = [NoArgs EXCEPT !.email = Some(email), !.account_name = Some(account_name),
                               !.user = fetched.user]
    /\ IF fetched.kind = "Found" /\ UserAllowed(fetched.user[1])
       THEN pc' = "register_user" /\ UNCHANGED result
       ELSE pc' = "returned" /\ result' = [kind |-> "Err", response |-> NoResponse]
    /\ UNCHANGED <<extVars, authVars, repoVars, config, webhook_table, fetched_kind, trigger,
                   payload, account_table, hooks, bodies, cursor, responses, sent,
                   webhook_response>>

\* create_default_account, lines 60-74: the registration and its outcome
RegisterUserAccount(outcome) ==
    /\ pc = "register_user"
    /\ LET account == [name |-> args.account_name[1], tenant_id |-> "none",
                       is_checked |-> TRUE]
       IN  IF outcome = "Created"
           THEN /\ account_table' = account_table \cup {account}
                /\ payload' = Some(account)
                /\ trigger' = "CreateUserAccount"
                /\ pc' = "dispatch"
                /\ UNCHANGED result
           ELSE /\ pc' = "returned"
                /\ result' = [kind |-> "Err", response |-> NoResponse]
                /\ UNCHANGED <<account_table, payload, trigger>>
    /\ UNCHANGED <<extVars, authVars, repoVars, config, webhook_table, args, fetched_kind,
                   hooks, bodies, cursor, responses, sent, webhook_response>>

\* The webhook records the table may hold when an account is created
CreateHooks ==
    { StoredHook(UrlA, "CreateSubscriptionAccount", TRUE, None),
      StoredHook(UrlB, "CreateSubscriptionAccount", TRUE, Some(SealedQuerySecret)),
      StoredHook(UrlA, "CreateUserAccount", TRUE, None),
      StoredHook(UrlB, "CreateUserAccount", FALSE, None) }

InitCreate ==
    /\ config = Key(1)
    /\ webhook_table \in {WithIds(t) : t \in SeqsUpTo(CreateHooks, MaxHooks)}
    /\ pc = "start"
    /\ args = NoArgs
    /\ fetched_kind = "None"
    /\ trigger = "CreateSubscriptionAccount"
    /\ payload = None
    /\ account_table = {}
    /\ hooks = <<>>
    /\ bodies = <<>>
    /\ cursor = 1
    /\ responses = <<>>
    /\ sent = {}
    /\ webhook_response = NoResponse
    /\ result = NoResult
    /\ AuthIdle
    /\ RepoIdle
    /\ ExtIdle

NextCreate ==
    \/ \E scope \in Scopes, tenant_id \in Tenants :
           CheckPermissions(scope, tenant_id, "acc")
    \/ \E outcome \in {"Created", "NotCreated", "Err"} : RegisterAccount(outcome)
    \/ \E fetched \in UserFetchOutcomes : FetchUser("user@domain.com", "acc", fetched)
    \/ \E outcome \in {"Created", "NotCreated", "Err"} : RegisterUserAccount(outcome)
    \/ \E fetched \in FetchOutcomes : FetchHooks(fetched)
    \/ \E i \in 1..MaxHooks : PollBody(i)
    \/ JoinAll
    \/ \E i \in 1..MaxHooks : SendRequest(i)
    \/ \E i \in 1..MaxHooks, outcome \in HttpOutcomes : ReceiveResponse(i, outcome)
    \/ ReturnResponse
    \/ ReturnOk

SpecCreate == InitCreate /\ [][NextCreate]_vars

\* The check of the running use case passed: the permission check of
\* create_subscription_account, the user check of create_default_account
CheckPassed ==
    IF args.scope # None
    THEN contain_enough_permissions(args.scope[1], args.tenant_id[1],
             {<<"TenantManager", "Write">>, <<"SubscriptionsManager", "Write">>})
    ELSE args.user # None /\ UserAllowed(args.user[1])

\* C26: in create_subscription_account and create_default_account the
\* registration runs only after the check passed, the webhooks are looked up
\* and requests are sent only after the repository reported the account as
\* Created, with the trigger of the use case; and when the check fails or the
\* account is not created the use case returns an error and no request is sent.
C26_CheckRegisterDispatch ==
    /\ pc \in {"register", "register_user"} =>
           /\ CheckPassed
           /\ payload = None
           /\ fetched_kind = "None"
           /\ sent = {}
    /\ (pc = "dispatch" \/ fetched_kind # "None" \/ sent # {}) =>
           /\ CheckPassed
           /\ payload # None
           /\ payload[1] \in account_table
           /\ trigger = IF args.scope # None THEN "CreateSubscriptionAccount"
                        ELSE "CreateUserAccount"
           /\ \A s \in sent : \E i \in DOMAIN hooks :
                  hooks[i].id = s.hook /\ hooks[i].trigger = trigger
    /\ (pc \notin {"start", "register", "register_user"} /\ account_table = {}) =>
           /\ pc = "returned"
           /\ result.kind = "Err"
           /\ sent = {}
           /\ fetched_kind = "None"

\* C26 witness: create_default_account found an active user, the repository
\* created the account, a request went to a CreateUserAccount hook and the use
\* case returned Ok with the propagations.
C26_Witness ==
    /\ args.user # None
    /\ pc = "returned"
    /\ result.kind = "Ok"
    /\ sent # {}
    /\ trigger = "CreateUserAccount"
    /\ result.response.propagations # None


(***************************************************************************)
(* Which hooks a dispatch reaches                                          *)
(***************************************************************************)

\* The stored records a dispatch of `trigger` is meant for
Subscribed == {k \in DOMAIN webhook_table :
                  webhook_table[k].trigger = trigger /\ webhook_table[k].is_active}

\* C27: every hook dispatch_webhooks works on, and every hook a request is
\* sent to, is a stored record whose trigger is the dispatched one and whose
\* is_active is true; a record that is inactive or of another trigger gets
\* no request, and the propagations hold at most one entry per subscribed
\* record.
C27_OnlyActiveHooksOfTheTrigger ==
    /\ \A i \in DOMAIN hooks :
           \E k \in Subscribed : hooks[i].id = Some(webhook_table[k].id)
    /\ \A s \in sent :
           \E k \in Subscribed : s.hook = Some(webhook_table[k].id)
    /\ \A k \in DOMAIN webhook_table \ Subscribed :
           \A s \in sent : s.hook # Some(webhook_table[k].id)
    /\ Len(responses) <= Cardinality(Subscribed)
    /\ \A i \in 1..Len(responses) :
           \E k \in Subscribed : hooks[i].id = Some(webhook_table[k].id)

\* C27 witness: the table holds an inactive record of the trigger, a record
\* of another trigger and a subscribed one; the dispatch is over, one request
\* was sent and one entry recorded.
C27_Witness ==
    /\ pc = "dispatched"
    /\ \E k \in DOMAIN webhook_table :
           webhook_table[k].trigger = trigger /\ ~webhook_table[k].is_active
    /\ \E k \in DOMAIN webhook_table : webhook_table[k].trigger # trigger
    /\ Cardinality(Subscribed) = 1
    /\ Cardinality(sent) = 1
    /\ Len(responses) = 1


\* C28: under every interleaving of get_or_create calls, at most one call
\* returns Created for a name, the table holds at most one role of a name,
\* and no other caller's insert of the name falls between the lookup and the
\* insert of a call.
C28_LookupAndInsertAtomic ==
    /\ \A c1, c2 \in Callers :
           (/\ role_calls[c1].result.kind = "Created"
            /\ role_calls[c2].result.kind = "Created"
            /\ role_calls[c1].guest_role[1].name = role_calls[c2].guest_role[1].name)
           => c1 = c2
    /\ \A r1, r2 \in role_table : r1.name = r2.name => r1 = r2
    /\ \A c \in Callers :
           role_calls[c].pc = "insert" =>
               ~\E r \in role_table : r.name = role_calls[c].guest_role[1].name


(***************************************************************************)
(* guest_user: check, validation, registration, notification               *)
(***************************************************************************)

\* The account stored under the target id, as the account repository holds it
GuestTargets ==
    [exists : BOOLEAN,
     account_type : {"Subscription", "StandardRoleAssociated", "User", "Staff"},
     verbose_status : {None, Some("Verified"), Some("Unverified")}]

NoGuestLocals == [related_accounts |-> None, target_account |-> None,
                  target_role |-> None, guest_user |-> None]

GuestErr(reason) == Some([kind |-> "Err", reason |-> reason])

\* AccountFetching::get(id, related_accounts): the account is looked for among
\* the related accounts only
AccountFetching_get_related(stored, account_id, related_accounts, db_ok) ==
    IF ~db_ok THEN [kind |-> "Err", account |-> None]
    ELSE IF related_accounts.kind = "AllowedAccounts" /\ account_id \notin related_accounts.ids
    THEN [kind |-> "NotFound", account |-> None]
    ELSE IF ~stored.exists THEN [kind |-> "NotFound", account |-> None]
    ELSE [kind |-> "Found",
          account |-> Some([id |-> account_id, account_type |-> stored.account_type,
                            verbose_status |-> stored.verbose_status])]

\* GuestRoleFetching::get(role_id)
GuestRoleFetching_get(role_id, role_exists, db_ok) ==
    IF ~db_ok THEN [kind |-> "Err", role |-> None]
    ELSE IF ~role_exists THEN [kind |-> "NotFound", role |-> None]
    ELSE [kind |-> "Found", role |-> Some(role_id)]

\* guest_user, lines 50-56
GuestUser_Check(profile, tenant_id, target_account_id, stored, role_exists) ==
    /\ gu_pc = "idle"
    /\ gu_call' = Some([profile |-> profile, tenant_id |-> tenant_id,
                        email |-> "guest@domain.com", role_id |-> "r1",
                        target_account_id |-> target_account_id,
                        stored |-> stored, role_exists |-> role_exists])
    /\ gu_invoked' = <<>>
    /\ LET related_accounts ==
               get_related_account_with_default_write_or_error(profile, tenant_id,
                   {"TenantOwner", "TenantManager", "SubscriptionsManager"})
       IN  IF related_accounts.ok
           THEN /\ gu_locals' = Some([NoGuestLocals EXCEPT
                                         !.related_accounts = Some(related_accounts.val)])
                /\ gu_pc' = "fetch"
                /\ gu_result' = None
           ELSE /\ gu_locals' = Some(NoGuestLocals)
                /\ gu_pc' = "returned"
                /\ gu_result' = GuestErr("insufficient_privileges")
    /\ UNCHANGED <<coreVars, licVars, secretVars, roleVars, apiVars, queueVars>>

\* Variant of GuestUser_Validate: the status of the target account is not looked at
GuestUser_Validate_AnyStatus(account_db_ok, role_db_ok) ==
    /\ gu_pc = "fetch"
    /\ gu_invoked' = gu_invoked \o <<"account_fetching.get", "guest_role_fetching.get">>
    /\ LET call == gu_call[1]
           target_account_response ==
               AccountFetching_get_related(call.stored, call.target_account_id,
                                           gu_locals[1].related_accounts[1], account_db_ok)
           target_role_response ==
               GuestRoleFetching_get(call.role_id, call.role_exists, role_db_ok)
           failure ==
               IF target_account_response.kind = "Err" THEN "account_fetching"
               ELSE IF target_account_response.kind = "NotFound"
               THEN "target_account_not_found"
               ELSE IF target_account_response.account[1].account_type
                          \notin {"Subscription", "StandardRoleAssociated"}
               THEN "invalid_account"
               ELSE IF target_role_response.kind = "Err" THEN "guest_role_fetching"
               ELSE IF target_role_response.kind = "NotFound" THEN "guest_role_not_found"
               ELSE "none"
       IN  IF failure # "none"
           THEN /\ gu_pc' = "returned"
                /\ gu_result' = GuestErr(failure)
                /\ UNCHANGED gu_locals
           ELSE /\ gu_pc' = "register"
                /\ gu_locals' = Some([gu_locals[1] EXCEPT
                       !.target_account = target_account_response.account,
                       !.target_role = target_role_response.role])
                /\ UNCHANGED gu_result
    /\ UNCHANGED <<coreVars, licVars, secretVars, roleVars, apiVars, queueVars, gu_call>>

\* guest_user, lines 67-121: both lookups are made, then their answers are
\* examined in the order account, account type, account status, role
GuestUser_Validate(account_db_ok, role_db_ok) ==
    /\ gu_pc = "fetch"
    /\ gu_invoked' = gu_invoked \o <<"account_fetching.get", "guest_role_fetching.get">>
    /\ LET call == gu_call[1]
           target_account_response ==
               AccountFetching_get_related(call.stored, call.target_account_id,
                                           gu_locals[1].related_accounts[1], account_db_ok)
           target_role_response ==
               GuestRoleFetching_get(call.role_id, call.role_exists, role_db_ok)
           failure ==
               IF target_account_response.kind = "Err" THEN "account_fetching"
               ELSE IF target_account_response.kind = "NotFound"
               THEN "target_account_not_found"
               ELSE IF target_account_response.account[1].account_type
                          \notin {"Subscription", "StandardRoleAssociated"}
               THEN "invalid_account"
               ELSE IF target_account_response.account[1].verbose_status = None
               THEN "unable_to_check_status"
               ELSE IF target_account_response.account[1].verbose_status # Some("Verified")
               THEN "invalid_account_status"
               ELSE IF target_role_response.kind = "Err" THEN "guest_role_fetching"
               ELSE IF target_role_response.kind = "NotFound" THEN "guest_role_not_found"
               ELSE "none"
       IN  IF failure # "none"
           THEN /\ gu_pc' = "returned"
                /\ gu_result' = GuestErr(failure)
                /\ UNCHANGED gu_locals
           ELSE /\ gu_pc' = "register"
                /\ gu_locals' = Some([gu_locals[1] EXCEPT
                       !.target_account = target_account_response.account,
                       !.target_role = target_role_response.role])
                /\ UNCHANGED gu_result
    /\ UNCHANGED <<coreVars, licVars, secretVars, roleVars, apiVars, queueVars, gu_call>>

\* guest_user, lines 127-148
GuestUser_Register(outcome) ==
    /\ gu_pc = "register"
    /\ gu_invoked' = Append(gu_invoked, "guest_user_registration.get_or_create")
    /\ IF outcome = "Err"
       THEN /\ gu_pc' = "returned"
            /\ gu_result' = GuestErr("unable_to_create_guest_user")
            /\ UNCHANGED gu_locals
       ELSE /\ gu_pc' = "notify"
            /\ gu_locals' = Some([gu_locals[1] EXCEPT !.guest_user =
                   Some([kind |-> outcome, email |-> gu_call[1].email,
                         guest_role |-> gu_call[1].role_id])])
            /\ UNCHANGED gu_result
    /\ UNCHANGED <<coreVars, licVars, secretVars, roleVars, apiVars, queueVars, gu_call>>

\* guest_user, lines 154-193
GuestUser_Notify(support_email_ok, sent_ok) ==
    /\ gu_pc = "notify"
    /\ IF ~support_email_ok
       THEN /\ gu_result' = GuestErr("support_email")
            /\ UNCHANGED gu_invoked
       ELSE /\ gu_invoked' = Append(gu_invoked, "message_sending.send")
            /\ gu_result' = IF sent_ok THEN Some([kind |-> "Ok", reason |-> "none"])
                            ELSE GuestErr("unable_to_send_email")
    /\ gu_pc' = "returned"
    /\ UNCHANGED <<coreVars, licVars, secretVars, roleVars, apiVars, queueVars, gu_call,
                   gu_locals>>

\* The call is over; the next one may come
GuestUser_NextCall ==
    /\ gu_pc = "returned"
    /\ gu_pc' = "idle"
    /\ gu_call' = None
    /\ gu_locals' = None
    /\ gu_invoked' = <<>>
    /\ gu_result' = None
    /\ UNCHANGED <<coreVars, licVars, secretVars, roleVars, apiVars, queueVars>>

InitGuestUser ==
    /\ GuestIdle
    /\ QueueIdle
    /\ LicIdle
    /\ SecretIdle
    /\ RoleIdle
    /\ ApiIdle
    /\ DispatchIdle
    /\ AuthIdle
    /\ RepoIdle
    /\ config = Key(1)
    /\ webhook_table = <<>>

NextGuestUser ==
    \/ \E profile \in Profiles, tenant_id \in Tenants, target_account_id \in AccountIds,
          stored \in GuestTargets, role_exists \in BOOLEAN :
           GuestUser_Check(profile, tenant_id, target_account_id, stored, role_exists)
    \/ \E account_db_ok, role_db_ok \in BOOLEAN : GuestUser_Validate(account_db_ok, role_db_ok)
    \/ \E outcome \in {"Created", "NotCreated", "Err"} : GuestUser_Register(outcome)
    \/ \E support_email_ok, sent_ok \in BOOLEAN : GuestUser_Notify(support_email_ok, sent_ok)
    \/ GuestUser_NextCall

SpecGuestUser == InitGuestUser /\ [][NextGuestUser]_vars

\* The repository operations of guest_user in the order of the source
GuestUserSteps ==
    <<"account_fetching.get", "guest_role_fetching.get",
      "guest_user_registration.get_or_create", "message_sending.send">>

\* C29: guest_user invokes its repositories in the order lookups,
\* registration, e-mail, and none before the permission check passed; the
\* registration is invoked only when the target account exists among the
\* caller's related accounts, is of type Subscription or
\* StandardRoleAssociated, has status Verified, and the guest role exists;
\* the e-mail is sent only after the registration returned Ok; a call that
\* failed returned an error without invoking a later step, and a call that
\* returned Ok invoked all of them.
C29_GuestUserStepOrder ==
    gu_call # None =>
        LET call == gu_call[1]
            related == get_related_account_with_default_write_or_error(
                           call.profile, call.tenant_id,
                           {"TenantOwner", "TenantManager", "SubscriptionsManager"})
        IN  /\ gu_invoked = SubSeq(GuestUserSteps, 1, Len(gu_invoked))
            /\ gu_invoked # <<>> => related.ok
            /\ "guest_user_registration.get_or_create" \in SeqRange(gu_invoked) =>
                   /\ related.ok
                   /\ \/ related.val.kind = "AllAccounts"
                      \/ call.target_account_id \in related.val.ids
                   /\ call.stored.exists
                   /\ call.stored.account_type \in {"Subscription", "StandardRoleAssociated"}
                   /\ call.stored.verbose_status = Some("Verified")
                   /\ call.role_exists
            /\ "message_sending.send" \in SeqRange(gu_invoked) =>
                   gu_locals[1].guest_user # None
            /\ (gu_pc = "returned" /\ gu_result[1].kind = "Ok") =>
                   gu_invoked = GuestUserSteps
            /\ (gu_pc = "returned" /\ Len(gu_invoked) < Len(GuestUserSteps)) =>
                   gu_result[1].kind = "Err"

\* C29 witness: a caller that is neither manager nor staff guested a user to
\* a verified subscription account among its related accounts; the role was
\* registered, the e-mail sent and the call returned Ok.
C29_Witness ==
    /\ gu_call # None
    /\ ~has_admin_privileges_or_error(gu_call[1].profile)
    /\ gu_pc = "returned"
    /\ gu_result[1].kind = "Ok"
    /\ gu_invoked = GuestUserSteps
    /\ gu_call[1].stored.account_type = "Subscription"


(***************************************************************************)
(* Properties of the webhook update                                        *)
(***************************************************************************)

\* The fields of a stored webhook an update may write
UpdatedFields(record, webhook) ==
    [record EXCEPT !.name = webhook.name, !.description = webhook.description,
                   !.url = webhook.url, !.trigger = webhook.trigger,
                   !.is_active = webhook.is_active]

\* C30: an update changes only name, description, url, trigger and is_active
\* of the stored webhook it names: the secret of every stored webhook, and so
\* its encrypted token, is the same after the update as before, every other
\* stored webhook is unchanged, and the update of a webhook without an id
\* returns an error and leaves every stored webhook unchanged.
C30_UpdateKeepsSecret ==
    [][repo_op'.name = "update" =>
          /\ Len(webhook_table') = Len(webhook_table)
          /\ \A i \in DOMAIN webhook_table :
                /\ webhook_table'[i].secret = webhook_table[i].secret
                /\ webhook_table'[i].id = webhook_table[i].id
                /\ webhook_table'[i] \in
                       {webhook_table[i], UpdatedFields(webhook_table[i], repo_op'.webhook)}
                /\ repo_op'.id # Some(i) => webhook_table'[i] = webhook_table[i]
          /\ repo_op'.id = None =>
                /\ webhook_table' = webhook_table
                /\ repo_returned' = <<>>]_vars

\* C30 witness: of two stored webhooks the first was updated with an input
\* that carries another secret than the stored one; its name, description,
\* url and trigger are those of the input, its stored secret is still
\* there, and the second webhook is as it was created.
C30_Witness ==
    /\ repo_op.name = "update"
    /\ repo_op.id = Some(1)
    /\ Len(webhook_table) = 2
    /\ Len(repo_returned) = 1
    /\ webhook_table[1].secret # None
    /\ repo_op.webhook.secret # webhook_table[1].secret
    /\ webhook_table[1].name = repo_op.webhook.name
    /\ webhook_table[1].description = None
    /\ webhook_table[1].url = UrlB
    /\ webhook_table[1].trigger = "UpdateUserAccount"
    /\ webhook_table[2].name = <<"h", "k">>
    /\ webhook_table[2].trigger = "CreateSubscriptionAccount"

====
